---- MODULE Spec2Model ----
(***************************************************************************)
(* State-machine model of trends_monitor.py: the collection run            *)
(* (process_trends), its batch loop with retry, anomaly detection, report  *)
(* assembly, alert dispatch, and the daily trigger (run_scheduler); and of *)
(* wechat_utils.py: the WeChatManager singleton, its login and sending.   *)
(*                                                                         *)
(* Time is the wall clock in whole minutes since 00:00 of day 0.  Targets  *)
(* of the trigger are minute-aligned (second = 0), so comparing the        *)
(* minute-floor of the clock with a target is exact.                       *)
(***************************************************************************)
EXTENDS Integers, Sequences, FiniteSets, TLC

(* ------------------------------------------------------------------ *)
(* Bounds of the model                                                  *)
(* ------------------------------------------------------------------ *)
MaxKeywords == 3
MaxBatchSize == 2
MaxRetries == 2
MaxRows == 4
MaxAlerts == 23
MaxRandomDelay == 20
MaxDays == 3

(* ------------------------------------------------------------------ *)
(* Program constants                                                    *)
(* ------------------------------------------------------------------ *)
rising_threshold == 500
alert_batch_size == 10
poll_seconds == 60

HoursPerDay == 24
MinutesPerHour == 60
DayMinutes == HoursPerDay * MinutesPerHour

(* ------------------------------------------------------------------ *)
(* Helpers on sequences and numbers                                     *)
(* ------------------------------------------------------------------ *)
Min(a, b) == IF a < b THEN a ELSE b

\* Python slice s[lo:hi] with 0-based lo, exclusive hi, clipped to the list.
Slice(s, lo, hi) == SubSeq(s, lo + 1, Min(hi, Len(s)))

\* All sequences over S of length 0..n.
SeqsUpTo(S, n) == UNION {[1..k -> S] : k \in 0..n}

RECURSIVE Flatten(_)
Flatten(ss) == IF ss = <<>> THEN <<>> ELSE Head(ss) \o Flatten(Tail(ss))

CeilDiv(a, b) == (a + b - 1) \div b

(* ------------------------------------------------------------------ *)
(* Data the provider returns                                            *)
(* ------------------------------------------------------------------ *)
\* A value stored under 'rising' or 'top': the key is absent, it is None,
\* or it is a DataFrame with rows {query, value}.
FrameKinds == {"absent", "none", "df"}
AbsentFrame == [kind |-> "absent", rows |-> <<>>]
NoneFrame == [kind |-> "none", rows |-> <<>>]
DataFrame(rows) == [kind |-> "df", rows |-> rows]
Row(q, v) == [query |-> q, value |-> v]

\* The per-keyword value of the result mapping: None, or a dict.
NoneData == [isdict |-> FALSE, rising |-> AbsentFrame, top |-> AbsentFrame]
DictData(r, t) == [isdict |-> TRUE, rising |-> r, top |-> t]

\* Python truthiness of a per-keyword value: None and {} are falsy.
Truthy(data) ==
    data.isdict /\ (data.rising.kind # "absent" \/ data.top.kind # "absent")

\* isinstance(data.get(key), pd.DataFrame)
IsDataFrame(frame) == frame.kind = "df"

(* ------------------------------------------------------------------ *)
(* check_rising_trends                                                  *)
(* ------------------------------------------------------------------ *)
RECURSIVE RisingAbove(_, _)
RisingAbove(rows, threshold) ==
    IF rows = <<>> THEN <<>>
    ELSE (IF Head(rows).value > threshold
          THEN << <<Head(rows).query, Head(rows).value>> >>
          ELSE <<>>) \o RisingAbove(Tail(rows), threshold)

\* A mutant of check_rising_trends: the comparison admits the threshold itself.
RECURSIVE RisingAtLeast(_, _)
RisingAtLeast(rows, threshold) ==
    IF rows = <<>> THEN <<>>
    ELSE (IF Head(rows).value >= threshold
          THEN << <<Head(rows).query, Head(rows).value>> >>
          ELSE <<>>) \o RisingAtLeast(Tail(rows), threshold)

check_rising_trends_ge(data, threshold) ==
    IF ~Truthy(data) \/ data.rising.kind \in {"absent", "none"} THEN <<>>
    ELSE IF IsDataFrame(data.rising) THEN RisingAtLeast(data.rising.rows, threshold)
    ELSE <<>>

check_rising_trends(data, threshold) ==
    IF ~Truthy(data) \/ data.rising.kind \in {"absent", "none"} THEN <<>>
    ELSE IF IsDataFrame(data.rising) THEN RisingAbove(data.rising.rows, threshold)
    ELSE <<>>

(* ------------------------------------------------------------------ *)
(* generate_daily_report                                                *)
(* ------------------------------------------------------------------ *)
RECURSIVE FrameRows(_, _, _)
FrameRows(keyword, rows, type) ==
    IF rows = <<>> THEN <<>>
    ELSE << [keyword |-> keyword, related_keywords |-> Head(rows).query,
             value |-> Head(rows).value, type |-> type] >>
         \o FrameRows(keyword, Tail(rows), type)

\* A mutant of ItemRows: the 'top' block is left out.
ItemRowsRisingOnly(keyword, data) ==
    IF Truthy(data) /\ IsDataFrame(data.rising)
    THEN FrameRows(keyword, data.rising.rows, "rising") ELSE <<>>

\* The rows one (keyword, data) item of results contributes.
ItemRows(keyword, data) ==
    (IF Truthy(data) /\ IsDataFrame(data.rising)
     THEN FrameRows(keyword, data.rising.rows, "rising") ELSE <<>>)
    \o
    (IF Truthy(data) /\ IsDataFrame(data.top)
     THEN FrameRows(keyword, data.top.rows, "top") ELSE <<>>)

\* report_data: results is a dict, kept as the sequence of its items
\* <<keyword, data>> in insertion order.
RECURSIVE ReportData(_)
ReportData(results) ==
    IF results = <<>> THEN <<>>
    ELSE ItemRows(Head(results)[1], Head(results)[2]) \o ReportData(Tail(results))

(* ------------------------------------------------------------------ *)
(* Python dict, kept as a sequence of <<key, value>> items              *)
(* ------------------------------------------------------------------ *)
DictKeys(d) == {d[n][1] : n \in 1..Len(d)}

DictGet(d, k) == d[CHOOSE n \in 1..Len(d) : d[n][1] = k][2]

\* A mutant of DictSet: the dict is bound anew to the one item.
DictSet_rebind(d, k, v) == << <<k, v>> >>

\* d[k] = v: an existing key keeps its position, a new key is appended.
DictSet(d, k, v) ==
    IF k \in DictKeys(d)
    THEN [n \in 1..Len(d) |-> IF d[n][1] = k THEN <<k, v>> ELSE d[n]]
    ELSE Append(d, <<k, v>>)

\* The distinct elements of a list in order of first occurrence.
RECURSIVE Distinct(_)
Distinct(s) ==
    IF s = <<>> THEN <<>>
    ELSE LET r == Distinct(SubSeq(s, 1, Len(s) - 1))
             x == s[Len(s)]
         IN IF \E n \in 1..Len(r) : r[n] = x THEN r ELSE Append(r, x)

(* ------------------------------------------------------------------ *)
(* Dates and times of day                                               *)
(* ------------------------------------------------------------------ *)
DateOf(t) == t \div DayMinutes
TimeOfDay(t) == t % DayMinutes
AtTime(day, hour, minute) == day * DayMinutes + hour * MinutesPerHour + minute

(* ------------------------------------------------------------------ *)
(* Inputs: configuration, command line, and what collaborators return   *)
(* ------------------------------------------------------------------ *)
\* Keyword lists of 0..MaxKeywords entries over two names, with repeated
\* names next to each other and apart: Image, Video, Image, ... and
\* Image, Image, Video, Video, ...
Alternating(n) == [k \in 1..n |-> IF k % 2 = 1 THEN "Image" ELSE "Video"]
Doubled(n) == [k \in 1..n |-> IF ((k - 1) \div 2) % 2 = 0 THEN "Image" ELSE "Video"]
KeywordLists == {Alternating(n) : n \in 0..MaxKeywords} \cup {Doubled(n) : n \in 0..MaxKeywords}
OverrideLists == {<<"Voice">>, <<"Text", "Voice">>}

\* Per-keyword values the provider may return.
DataOptions ==
    { NoneData,
      DictData(DataFrame(<<Row("q1", 501)>>), DataFrame(<<Row("t1", 100)>>)),
      DictData(DataFrame(<<Row("q2", 500)>>), NoneFrame) }

\* Twelve keywords for which the provider has rows: one rising row above
\* the threshold and one top row each.
EndToEndKeywords ==
    <<"K01", "K02", "K03", "K04", "K05", "K06", "K07", "K08", "K09", "K10",
      "K11", "K12">>
FetchedData(keyword) ==
    DictData(DataFrame(<<Row(keyword, 501)>>), DataFrame(<<Row(keyword, 100)>>))
DataOptionsOf(keyword) ==
    IF \E k \in 1..Len(EndToEndKeywords) : EndToEndKeywords[k] = keyword
    THEN {FetchedData(keyword)}
    ELSE DataOptions

\* The mappings from the keys, in order, to a value the provider may return.
RECURSIVE MappingsOver(_)
MappingsOver(keys) ==
    IF keys = <<>> THEN {<<>>}
    ELSE LET last == keys[Len(keys)]
         IN {Append(front, <<last, d>>) :
                front \in MappingsOver(SubSeq(keys, 1, Len(keys) - 1)),
                d \in DataOptionsOf(last)}

\* batch_get_queries: a mapping from each keyword of the batch to a value.
ResultMappings(batch) == MappingsOver(Distinct(batch))

\* send_notification returns success as a boolean.
SendOutcomes == BOOLEAN

\* The uniform jitter of the inter-batch wait, in seconds: random.uniform(0, 60).
PaceJitterSeconds == {0, 59}

NoFile == [some |-> FALSE, dir |-> 0, date |-> 0]

VARIABLES
    KEYWORDS, batch_size, max_retries,        \* config.py
    batch_interval,                           \* RATE_LIMIT_CONFIG, seconds
    cfg_hour, cfg_minute, cfg_random_delay,   \* SCHEDULE_CONFIG
    args_test, args_keywords,                 \* command line (<<>>: not given)
    pc, caller, now,                          \* control position, clock
    random_minutes, schedule_hour, schedule_minute, next_run,   \* run_scheduler
    directory, all_results, high_rising_trends, i, keywords_batch,
    tries, results, item, success, report_file, ai, ret,        \* process_trends
    batches, attempt_log, failed, paces, written, sent,         \* log of the run
    before_batch, fetch_attempts,                               \* accumulators at the last call of process_keywords_batch; tries of the run
    start_now, start_target, long_sleeps, fired, active_runs,   \* log of the trigger
    last_ret, exit_status,                                      \* log of the process
    cr_data, cr_threshold, cr_ret,                              \* one call of check_rising_trends
    wx_phase, wx_calls, wx_method,                              \* wechat_utils: import state, calls made, NOTIFICATION_CONFIG['method']
    wx_instance, wx_lock, wx_made,                              \* WeChatManager._instance, ._lock (holder), objects created
    wx_initialized, wx_init_runs,                               \* _initialized, runs of the body of __init__
    wx_logged_in, wx_login_lock,                                \* _logged_in, _login_lock (holder)
    wx_need_wechat, wx_has_wechat,                              \* _need_wechat, _has_wechat
    wx_pkl, wx_receiving,                                       \* itchat.pkl exists, itchat's receiving thread runs
    wx_thread                                                   \* position and call record of each thread

cfgVars == <<KEYWORDS, batch_size, max_retries, batch_interval, cfg_hour, cfg_minute,
             cfg_random_delay, args_test, args_keywords>>
schedVars == <<random_minutes, schedule_hour, schedule_minute, next_run>>
runVars == <<directory, all_results, high_rising_trends, i, keywords_batch,
             tries, results, item, success, report_file, ai, ret>>
runLog == <<batches, attempt_log, failed, paces, written, sent, before_batch, fetch_attempts>>
schedLog == <<start_now, start_target, long_sleeps, fired, active_runs,
              last_ret, exit_status>>
crVars == <<cr_data, cr_threshold, cr_ret>>
wxVars == <<wx_phase, wx_calls, wx_method, wx_instance, wx_lock, wx_made, wx_initialized,
            wx_init_runs, wx_logged_in, wx_login_lock, wx_need_wechat, wx_has_wechat,
            wx_pkl, wx_receiving, wx_thread>>
vars == <<cfgVars, pc, caller, now, schedVars, runVars, runLog, schedLog, crVars, wxVars>>

Horizon == MaxDays * DayMinutes

\* The two accumulators handed to process_keywords_batch (line 217), as
\* they are when the call is made.
Accumulators(res, trends) == [all_results |-> res, high_rising_trends |-> trends]

(* ------------------------------------------------------------------ *)
(* process_trends: the collection run                                   *)
(* ------------------------------------------------------------------ *)
\* A notification as handed to send_notification, with what it returned.
\* number and total are the group index and count its subject carries
\* ("(N/M)", alerts only); note tells whether its body carries the line
\* "This is batch N of M. More results will follow."
Notification(kind, number, total, items, note, ok) ==
    [kind |-> kind, number |-> number, total |-> total, items |-> items,
     note |-> note, ok |-> ok]

\* Lines 200-211: the day directory and the two accumulators.
\* create_daily_directory may raise (os.makedirs), which the outer handler catches.
pt_start ==
    /\ pc = "pt_start"
    /\ \E raised \in BOOLEAN :
         IF raised
         THEN /\ pc' = "pt_except"
              /\ UNCHANGED <<directory, all_results, high_rising_trends, i>>
         ELSE /\ directory' = DateOf(now)
              /\ all_results' = <<>>
              /\ high_rising_trends' = <<>>
              /\ i' = 0
              /\ pc' = "pt_loop"
    /\ UNCHANGED <<cfgVars, caller, now, schedVars, keywords_batch, tries,
                   results, item, success, report_file, ai, ret, runLog,
                   schedLog, crVars, wxVars>>

\* A mutant of keywords_batch_at: the slice is one keyword short.
keywords_batch_short(keywords, start, size) == Slice(keywords, start, start + size - 1)

\* Line 215: KEYWORDS[i:i + batch_size]
keywords_batch_at(keywords, start, size) == Slice(keywords, start, start + size)

\* A mutant of pt_loop: the alert list is created anew for every batch.
pt_loop_fresh_alerts ==
    /\ pc = "pt_loop"
    /\ IF i < Len(KEYWORDS)
       THEN /\ keywords_batch' = keywords_batch_at(KEYWORDS, i, batch_size)
            /\ batches' = Append(batches, keywords_batch')
            /\ tries' = 0
            /\ attempt_log' = <<>>
            /\ high_rising_trends' = <<>>
            /\ before_batch' = Accumulators(all_results, high_rising_trends)
            /\ pc' = "pkb_fetch"
       ELSE /\ pc' = "pt_report"
            /\ UNCHANGED <<keywords_batch, batches, tries, attempt_log,
                           high_rising_trends, before_batch>>
    /\ UNCHANGED <<cfgVars, caller, now, schedVars, directory, all_results,
                   i, results, item, success, report_file,
                   ai, ret, failed, paces, written, sent, fetch_attempts,
                   schedLog, crVars, wxVars>>

\* Lines 214-215: for i in range(0, len(KEYWORDS), batch_size)
pt_loop ==
    /\ pc = "pt_loop"
    /\ IF i < Len(KEYWORDS)
       THEN /\ keywords_batch' = keywords_batch_at(KEYWORDS, i, batch_size)
            /\ batches' = Append(batches, keywords_batch')
            /\ tries' = 0
            /\ attempt_log' = <<>>
            /\ before_batch' = Accumulators(all_results, high_rising_trends)
            /\ pc' = "pkb_fetch"
       ELSE /\ pc' = "pt_report"
            /\ UNCHANGED <<keywords_batch, batches, tries, attempt_log, before_batch>>
    /\ UNCHANGED <<cfgVars, caller, now, schedVars, directory, all_results,
                   high_rising_trends, i, results, item, success, report_file,
                   ai, ret, failed, paces, written, sent, fetch_attempts,
                   schedLog, crVars, wxVars>>

\* A mutant of give_up: twice max_tries tries are made before giving up.
give_up_doubled(n, max_tries) == n = 2 * max_tries

\* A mutant of give_up: max_tries read as the number of retries after the first try.
give_up_late(n, max_tries) == n = max_tries + 1

\* backoff.on_exception(max_tries=...): the error propagates once the number
\* of tries made equals max_tries.
give_up(n, max_tries) == n = max_tries

\* Lines 160, 180-196: one try of get_trends_with_retry.  On success the
\* mapping is returned; on an error backoff sleeps (seconds) and tries again,
\* or gives up and lets the error reach the handler of process_keywords_batch
\* (lines 176-178), which returns False.
pkb_fetch ==
    /\ pc = "pkb_fetch"
    /\ tries' = tries + 1
    /\ fetch_attempts' = fetch_attempts + 1
    /\ \/ \E m \in ResultMappings(keywords_batch) :
            /\ results' = m
            /\ item' = 1
            /\ attempt_log' = Append(attempt_log, "ok")
            /\ pc' = "pkb_items"
            /\ UNCHANGED success
       \/ /\ attempt_log' = Append(attempt_log, "fail")
          /\ IF give_up(tries', max_retries)
             THEN /\ success' = FALSE
                  /\ pc' = "pt_after_batch"
             ELSE /\ pc' = "pkb_fetch"
                  /\ UNCHANGED success
          /\ UNCHANGED <<results, item>>
    /\ UNCHANGED <<cfgVars, caller, now, schedVars, directory, all_results,
                   high_rising_trends, i, keywords_batch, report_file, ai, ret,
                   batches, failed, paces, before_batch, written, sent, schedLog, crVars, wxVars>>

\* Lines 170-171: the alerts of one keyword.
AlertsOf(keyword, rising_trends) ==
    [n \in 1..Len(rising_trends) |->
        <<keyword, rising_trends[n][1], rising_trends[n][2]>>]

\* A mutant of pkb_items: the result is recorded only for a keyword that
\* gave no alert (line 173 under an else of line 169).
pkb_items_else_record ==
    /\ pc = "pkb_items"
    /\ IF item <= Len(results)
       THEN LET keyword == results[item][1]
                data == results[item][2]
                rising_trends == check_rising_trends(data, rising_threshold)
            IN IF Truthy(data)
               THEN \E persisted \in BOOLEAN :
                      IF persisted
                      THEN /\ high_rising_trends' = high_rising_trends \o
                                AlertsOf(keyword, rising_trends)
                           /\ all_results' = IF rising_trends # <<>> THEN all_results
                                             ELSE DictSet(all_results, keyword, data)
                           /\ item' = item + 1
                           /\ UNCHANGED <<pc, success>>
                      ELSE /\ success' = FALSE
                           /\ pc' = "pt_after_batch"
                           /\ UNCHANGED <<high_rising_trends, all_results, item>>
               ELSE /\ item' = item + 1
                    /\ UNCHANGED <<pc, success, high_rising_trends, all_results>>
       ELSE /\ success' = TRUE
            /\ pc' = "pt_after_batch"
            /\ UNCHANGED <<high_rising_trends, all_results, item>>
    /\ UNCHANGED <<cfgVars, caller, now, schedVars, directory, i, keywords_batch,
                   tries, results, report_file, ai, ret, runLog, schedLog, crVars, wxVars>>

\* Lines 162-178: one item of results.items(), or the return after the last.
\* save_related_queries / os.rename may raise; the handler returns False.
pkb_items ==
    /\ pc = "pkb_items"
    /\ IF item <= Len(results)
       THEN LET keyword == results[item][1]
                data == results[item][2]
            IN IF Truthy(data)
               THEN \E persisted \in BOOLEAN :
                      IF persisted
                      THEN /\ high_rising_trends' = high_rising_trends \o
                                AlertsOf(keyword, check_rising_trends(data, rising_threshold))
                           /\ all_results' = DictSet(all_results, keyword, data)
                           /\ item' = item + 1
                           /\ UNCHANGED <<pc, success>>
                      ELSE /\ success' = FALSE
                           /\ pc' = "pt_after_batch"
                           /\ UNCHANGED <<high_rising_trends, all_results, item>>
               ELSE /\ item' = item + 1
                    /\ UNCHANGED <<pc, success, high_rising_trends, all_results>>
       ELSE /\ success' = TRUE
            /\ pc' = "pt_after_batch"
            /\ UNCHANGED <<high_rising_trends, all_results, item>>
    /\ UNCHANGED <<cfgVars, caller, now, schedVars, directory, i, keywords_batch,
                   tries, results, report_file, ai, ret, runLog, schedLog, crVars, wxVars>>

\* A mutant of after_failed_batch: a failed batch ends the batch loop.
after_failed_batch_break == "pt_report"

\* Lines 225-227: a failed batch is logged and the loop continues.
after_failed_batch == "pt_loop"

\* Lines 225-233: after process_keywords_batch returned.
pt_after_batch ==
    /\ pc = "pt_after_batch"
    /\ IF ~success
       THEN /\ failed' = failed \cup
                   {[batch |-> Len(batches),
                     cause |-> IF attempt_log[Len(attempt_log)] = "ok"
                               THEN "persist" ELSE "fetch"]}
            /\ pc' = after_failed_batch
            /\ UNCHANGED <<now, paces>>
       ELSE /\ pc' = "pt_loop"
            /\ UNCHANGED failed
            /\ IF i + batch_size < Len(KEYWORDS)
               THEN \E jitter \in PaceJitterSeconds :
                      /\ paces' = Append(paces, [after |-> Len(batches),
                                                 seconds |-> batch_interval + jitter])
                      /\ now' = now + (batch_interval + jitter) \div 60
               ELSE UNCHANGED <<now, paces>>
    /\ i' = i + batch_size
    /\ UNCHANGED <<cfgVars, caller, schedVars, directory, all_results,
                   high_rising_trends, keywords_batch, tries, results, item,
                   success, report_file, ai, ret, batches, attempt_log, written,
                   sent, before_batch, fetch_attempts, schedLog, crVars, wxVars>>

\* Lines 236-237 with generate_daily_report (97-128): the file is written
\* only when report_data is not empty; to_csv may raise (outer handler).
pt_report ==
    /\ pc = "pt_report"
    /\ LET report_data == ReportData(all_results)
       IN IF report_data # <<>>
          THEN \E raised \in BOOLEAN :
                 IF raised
                 THEN /\ pc' = "pt_except"
                      /\ UNCHANGED <<written, report_file>>
                 ELSE /\ written' = Append(written, [dir |-> directory,
                                                     date |-> DateOf(now),
                                                     rows |-> report_data])
                      /\ report_file' = [some |-> TRUE, dir |-> directory,
                                         date |-> DateOf(now)]
                      /\ pc' = "pt_send_report"
          ELSE /\ report_file' = NoFile
               /\ pc' = "pt_alerts"
               /\ UNCHANGED written
    /\ ai' = 0
    /\ UNCHANGED <<cfgVars, caller, now, schedVars, directory, all_results,
                   high_rising_trends, i, keywords_batch, tries, results, item,
                   success, ret, batches, attempt_log, failed, paces, sent, before_batch, fetch_attempts,
                   schedLog, crVars, wxVars>>

\* Lines 259-264: a failed report send is logged only.
after_report_send(ok) == "pt_alerts"

\* Lines 238-264: the report notification.
pt_send_report ==
    /\ pc = "pt_send_report"
    /\ \E ok \in SendOutcomes :
         /\ sent' = Append(sent, Notification("report", 0, 0, <<>>, FALSE, ok))
         /\ pc' = after_report_send(ok)
    /\ UNCHANGED <<cfgVars, caller, now, schedVars, runVars, batches,
                   attempt_log, failed, paces, written, before_batch, fetch_attempts, schedLog, crVars, wxVars>>

\* A mutant of alert_group: the slice takes one alert too many.
alert_group_long(trends, start) == Slice(trends, start, start + alert_batch_size + 1)

\* Line 271: high_rising_trends[i:i + batch_size]
alert_group(trends, start) == Slice(trends, start, start + alert_batch_size)

\* A mutant of after_alert_send: a failed alert send ends the alert loop.
after_alert_send_break(ok) == IF ok THEN "pt_alerts" ELSE "pt_done"

\* A mutant of after_alert_send: the report is sent after the first alert
\* group instead of before it.
after_alert_send_report(ok) == "pt_send_report"

\* Lines 306-313: a failed alert send is logged only; the loop goes on.
after_alert_send(ok) == "pt_alerts"

\* A mutant of body_has_batch_note: the last group is taken to have more
\* results following it.
body_has_batch_note_le(batch_number, total_batches) == batch_number <= total_batches

\* Line 302: if batch_number < total_batches
body_has_batch_note(batch_number, total_batches) == batch_number < total_batches

\* Lines 267-313: one pass of the alert loop (build the group, send it,
\* sleep 2 seconds), or the end of the loop.
pt_alerts ==
    /\ pc = "pt_alerts"
    /\ IF high_rising_trends # <<>> /\ ai < Len(high_rising_trends)
       THEN LET batch_trends == alert_group(high_rising_trends, ai)
                batch_number == ai \div alert_batch_size + 1
                total_batches == (Len(high_rising_trends) + alert_batch_size - 1)
                                     \div alert_batch_size
            IN \E ok \in SendOutcomes :
                 /\ sent' = Append(sent, Notification("alert", batch_number,
                                       total_batches, batch_trends,
                                       body_has_batch_note(batch_number,
                                                           total_batches), ok))
                 /\ pc' = after_alert_send(ok)
                 /\ ai' = ai + alert_batch_size
       ELSE /\ pc' = "pt_done"
            /\ UNCHANGED <<sent, ai>>
    /\ UNCHANGED <<cfgVars, caller, now, schedVars, directory, all_results,
                   high_rising_trends, i, keywords_batch, tries, results, item,
                   success, report_file, ret, batches, attempt_log, failed,
                   paces, written, before_batch, fetch_attempts, schedLog, crVars, wxVars>>

\* A mutant of pt_done: the run reports success only when no batch failed
\* and every notification was delivered.
pt_done_strict ==
    /\ pc = "pt_done"
    /\ ret' = (failed = {} /\ \A n \in 1..Len(sent) : sent[n].ok)
    /\ pc' = "pt_return"
    /\ UNCHANGED <<cfgVars, caller, now, schedVars, directory, all_results,
                   high_rising_trends, i, keywords_batch, tries, results, item,
                   success, report_file, ai, runLog, schedLog, crVars, wxVars>>

\* Lines 315-316: return True.
pt_done ==
    /\ pc = "pt_done"
    /\ ret' = TRUE
    /\ pc' = "pt_return"
    /\ UNCHANGED <<cfgVars, caller, now, schedVars, directory, all_results,
                   high_rising_trends, i, keywords_batch, tries, results, item,
                   success, report_file, ai, runLog, schedLog, crVars, wxVars>>

\* A mutant of pt_except: the handler sends the error alert and raises the
\* error again, which ends the process.
pt_except_reraise ==
    /\ pc = "pt_except"
    /\ \E ok \in SendOutcomes :
         sent' = Append(sent, Notification("error", 0, 0, <<>>, FALSE, ok))
    /\ active_runs' = active_runs - 1
    /\ exit_status' = 1
    /\ pc' = "exit"
    /\ UNCHANGED <<cfgVars, caller, now, schedVars, runVars, batches, attempt_log,
                   failed, paces, written, before_batch, fetch_attempts, start_now, start_target, long_sleeps,
                   fired, last_ret, crVars, wxVars>>

\* Lines 317-323: the outer handler sends one error alert and returns False.
pt_except ==
    /\ pc = "pt_except"
    /\ \E ok \in SendOutcomes :
         sent' = Append(sent, Notification("error", 0, 0, <<>>, FALSE, ok))
    /\ ret' = FALSE
    /\ pc' = "pt_return"
    /\ UNCHANGED <<cfgVars, caller, now, schedVars, directory, all_results,
                   high_rising_trends, i, keywords_batch, tries, results, item,
                   success, report_file, ai, batches, attempt_log, failed,
                   paces, written, before_batch, fetch_attempts, schedLog, crVars, wxVars>>

(* ------------------------------------------------------------------ *)
(* run_scheduler: the daily trigger                                     *)
(* ------------------------------------------------------------------ *)
\* A mutant of target_minute: the sum is not reduced modulo 60.
target_minute_unreduced(minute, jitter) == minute + jitter

\* Line 334: schedule_minute = (schedule_minute + random_minutes) % 60
target_minute(minute, jitter) == (minute + jitter) % MinutesPerHour

\* Line 336, evaluated after line 334 has already replaced schedule_minute:
\* schedule_hour = (schedule_hour + (schedule_minute + random_minutes) // 60) % 24
target_hour(hour, minute, jitter) ==
    (hour + (target_minute(minute, jitter) + jitter) \div MinutesPerHour) % HoursPerDay

\* schedule.every().day.at("HH:MM"): the next run is the first occurrence of
\* HH:MM:00 strictly after the moment of scheduling.
NextOccurrence(t, hour, minute) ==
    LET today == AtTime(DateOf(t), hour, minute)
    IN IF today > t THEN today ELSE today + DayMinutes

\* Lines 327-342: the jitter is drawn, the target computed, the job registered.
rs_start ==
    /\ pc = "rs_start"
    /\ IF cfg_random_delay > 0
       THEN \E drawn \in 0..cfg_random_delay :
              /\ random_minutes' = drawn
              /\ schedule_minute' = target_minute(cfg_minute, drawn)
              /\ schedule_hour' = target_hour(cfg_hour, cfg_minute, drawn)
       ELSE /\ random_minutes' = 0
            /\ schedule_minute' = cfg_minute
            /\ schedule_hour' = cfg_hour
    /\ next_run' = NextOccurrence(now, schedule_hour', schedule_minute')
    /\ pc' = "rs_check"
    /\ UNCHANGED <<cfgVars, caller, now, runVars, runLog, schedLog, crVars, wxVars>>

\* Line 348: if now >= scheduled_time
startup_deferred(t, scheduled_time) == t >= scheduled_time

\* A mutant of rs_check: a start at or past today's target runs the job at
\* once, as a catch-up.
rs_check_catch_up ==
    /\ pc = "rs_check"
    /\ LET scheduled_time == AtTime(DateOf(now), schedule_hour, schedule_minute)
       IN /\ start_now' = now
          /\ start_target' = scheduled_time
          /\ IF startup_deferred(now, scheduled_time)
             THEN /\ fired' = Append(fired, now)
                  /\ active_runs' = active_runs + 1
                  /\ caller' = "sched"
                  /\ pc' = "pt_start"
             ELSE /\ pc' = "rs_poll"
                  /\ UNCHANGED <<fired, active_runs, caller>>
    /\ UNCHANGED <<cfgVars, now, long_sleeps, schedVars, runVars, runLog, crVars, wxVars,
                   last_ret, exit_status>>

\* Lines 345-351: a start at or past today's target sleeps, in one sleep,
\* until the same time tomorrow.
rs_check ==
    /\ pc = "rs_check"
    /\ LET scheduled_time == AtTime(DateOf(now), schedule_hour, schedule_minute)
       IN /\ start_now' = now
          /\ start_target' = scheduled_time
          /\ IF startup_deferred(now, scheduled_time)
             THEN /\ now' = scheduled_time + DayMinutes
                  /\ long_sleeps' = Append(long_sleeps, scheduled_time + DayMinutes - now)
             ELSE UNCHANGED <<now, long_sleeps>>
    /\ pc' = "rs_poll"
    /\ UNCHANGED <<cfgVars, caller, schedVars, runVars, runLog, fired,
                   active_runs, last_ret, exit_status, crVars, wxVars>>

\* A mutant of rs_poll_idle: the loop sleeps, in one sleep, until the job
\* is due.
rs_poll_idle_until_due ==
    /\ pc = "rs_poll"
    /\ now < next_run
    /\ now < Horizon
    /\ now' = next_run
    /\ UNCHANGED <<cfgVars, pc, caller, schedVars, runVars, runLog, schedLog, crVars, wxVars>>

\* Lines 354-355 when no job is due: run_pending does nothing, sleep 60 s.
rs_poll_idle ==
    /\ pc = "rs_poll"
    /\ now < next_run
    /\ now < Horizon
    /\ now' = now + poll_seconds \div 60
    /\ UNCHANGED <<cfgVars, pc, caller, schedVars, runVars, runLog, schedLog, crVars, wxVars>>

\* A mutant of rs_fire: the job is started without waiting for it, and the
\* loop goes on polling.
rs_fire_detached ==
    /\ pc = "rs_poll"
    /\ now >= next_run
    /\ fired' = Append(fired, now)
    /\ active_runs' = active_runs + 1
    /\ now' = now + poll_seconds \div 60
    /\ UNCHANGED <<cfgVars, pc, caller, schedVars, runVars, runLog, start_now,
                   start_target, long_sleeps, last_ret, exit_status, crVars, wxVars>>

\* Line 354 when the job is due: run_pending calls process_trends and waits
\* for it to return.
rs_fire ==
    /\ pc = "rs_poll"
    /\ now >= next_run
    /\ fired' = Append(fired, now)
    /\ active_runs' = active_runs + 1
    /\ caller' = "sched"
    /\ pc' = "pt_start"
    /\ UNCHANGED <<cfgVars, now, schedVars, runVars, runLog, start_now,
                   start_target, long_sleeps, last_ret, exit_status, crVars, wxVars>>

\* A mutant of pt_return: the target is computed again, with a new jitter,
\* after every run of the trigger.
pt_return_redraw ==
    /\ pc = "pt_return"
    /\ active_runs' = active_runs - 1
    /\ last_ret' = <<ret>>
    /\ exit_status' = IF caller = "main" THEN 0 ELSE exit_status
    /\ directory' = 0
    /\ all_results' = <<>>
    /\ high_rising_trends' = <<>>
    /\ i' = 0
    /\ keywords_batch' = <<>>
    /\ tries' = 0
    /\ results' = <<>>
    /\ item' = 0
    /\ success' = FALSE
    /\ report_file' = NoFile
    /\ ai' = 0
    /\ ret' = FALSE
    /\ batches' = <<>>
    /\ attempt_log' = <<>>
    /\ failed' = {}
    /\ paces' = <<>>
    /\ written' = <<>>
    /\ sent' = <<>>
    /\ before_batch' = Accumulators(<<>>, <<>>)
    /\ fetch_attempts' = 0
    /\ IF caller = "sched" /\ cfg_random_delay > 0
       THEN \E drawn \in 0..cfg_random_delay :
              /\ random_minutes' = drawn
              /\ schedule_minute' = target_minute(cfg_minute, drawn)
              /\ schedule_hour' = target_hour(cfg_hour, cfg_minute, drawn)
       ELSE UNCHANGED <<random_minutes, schedule_hour, schedule_minute>>
    /\ IF caller = "main"
       THEN /\ pc' = "exit"
            /\ UNCHANGED <<now, next_run>>
       ELSE /\ next_run' = NextOccurrence(now, schedule_hour', schedule_minute')
            /\ now' = now + poll_seconds \div 60
            /\ pc' = "rs_poll"
    /\ UNCHANGED <<cfgVars, caller, start_now, start_target, long_sleeps,
                   fired, crVars, wxVars>>

\* process_trends returns and its locals are gone.  Called from the command
\* line (line 386) its value is dropped and the program ends at the end of
\* the script, with exit status 0; called by run_pending the job is
\* scheduled for the next occurrence of the target and the loop sleeps 60 s
\* (line 355).
pt_return ==
    /\ pc = "pt_return"
    /\ active_runs' = active_runs - 1
    /\ last_ret' = <<ret>>
    /\ exit_status' = IF caller = "main" THEN 0 ELSE exit_status
    /\ directory' = 0
    /\ all_results' = <<>>
    /\ high_rising_trends' = <<>>
    /\ i' = 0
    /\ keywords_batch' = <<>>
    /\ tries' = 0
    /\ results' = <<>>
    /\ item' = 0
    /\ success' = FALSE
    /\ report_file' = NoFile
    /\ ai' = 0
    /\ ret' = FALSE
    /\ batches' = <<>>
    /\ attempt_log' = <<>>
    /\ failed' = {}
    /\ paces' = <<>>
    /\ written' = <<>>
    /\ sent' = <<>>
    /\ before_batch' = Accumulators(<<>>, <<>>)
    /\ fetch_attempts' = 0
    /\ IF caller = "main"
       THEN /\ pc' = "exit"
            /\ UNCHANGED <<now, next_run>>
       ELSE /\ next_run' = NextOccurrence(now, schedule_hour, schedule_minute)
            /\ now' = now + poll_seconds \div 60
            /\ pc' = "rs_poll"
    /\ UNCHANGED <<cfgVars, caller, random_minutes, schedule_hour,
                   schedule_minute, start_now, start_target, long_sleeps,
                   fired, crVars, wxVars>>

(* ------------------------------------------------------------------ *)
(* __main__                                                             *)
(* ------------------------------------------------------------------ *)
\* A mutant of main: --keywords is parsed and then not used.
main_ignore_override ==
    /\ pc = "main"
    /\ IF args_test
       THEN /\ caller' = "main"
            /\ active_runs' = active_runs + 1
            /\ pc' = "pt_start"
       ELSE /\ pc' = "rs_start"
            /\ UNCHANGED <<caller, active_runs>>
    /\ UNCHANGED <<cfgVars, now, schedVars, runVars, runLog, start_now,
                   start_target, long_sleeps, fired, last_ret, exit_status,
                   crVars, wxVars>>

\* Lines 378-389: --test runs one collection at once, on the override list
\* when one is given; otherwise the trigger starts.
main ==
    /\ pc = "main"
    /\ IF args_test
       THEN /\ KEYWORDS' = IF args_keywords # <<>> THEN args_keywords ELSE KEYWORDS
            /\ caller' = "main"
            /\ active_runs' = active_runs + 1
            /\ pc' = "pt_start"
       ELSE /\ pc' = "rs_start"
            /\ UNCHANGED <<KEYWORDS, caller, active_runs>>
    /\ UNCHANGED <<batch_size, max_retries, batch_interval, cfg_hour, cfg_minute,
                   cfg_random_delay, args_test, args_keywords, now, schedVars,
                   runVars, runLog, start_now, start_target, long_sleeps,
                   fired, last_ret, exit_status, crVars, wxVars>>

(* ------------------------------------------------------------------ *)
(* The program                                                          *)
(* ------------------------------------------------------------------ *)
\* A --test run is started two minutes before midnight.
TestStartTimes == {AtTime(0, 23, 58)}
SchedStartTimes == {AtTime(0, 0, 0), AtTime(0, 23, 0), AtTime(0, 23, 58), AtTime(0, 23, 59)}
ScheduleConfigs ==
    { [hour |-> 23, minute |-> 59, random_delay_minutes |-> 1],
      [hour |-> 0, minute |-> 0, random_delay_minutes |-> 0] }
\* batch_interval as configured (300 s), or longer than a day.
BatchIntervals == {300, (DayMinutes + 1) * 60}

(* ------------------------------------------------------------------ *)
(* wechat_utils.py: the WeChatManager singleton                         *)
(* ------------------------------------------------------------------ *)
\* Threads of the process that use the manager after the module is imported.
\* The first is the thread that imports the module.
Threads == {"main", "worker"}
MainThread == "main"
\* Calls the threads make after the import, and the largest max_retries
\* passed to login.
MaxCalls == 2
MaxLoginRetries == 2
\* login(self, max_retries: int = 3, ...): the default ensure_login relies on.
login_default_retries == 3

\* NOTIFICATION_CONFIG['method'].
WeChatMethods == {"email", "wechat", "both"}
NoLock == "free"
NoObject == 0

monitorVars == <<cfgVars, pc, caller, now, schedVars, runVars, runLog, schedLog, crVars>>

\* itchat.search_friends() in check_login_status (line 138): a non-empty
\* result, an empty one, or an exception.
StatusOutcomes == {"friends", "empty", "raises"}
\* The value check_login_status returns (lines 139, 143).
check_login_status(outcome) == outcome = "friends"
\* _logged_in after check_login_status: cleared only by the except branch.
logged_in_after_check(flag, outcome) == IF outcome = "raises" THEN FALSE ELSE flag

\* os.remove in clean_login_cache succeeds or raises (caught, lines 79-80):
\* whether itchat.pkl exists afterwards.
clean_login_cache(pkl, removed) == pkl /\ ~removed

\* itchat.auto_login(hotReload=True) of _try_load_login_status (line 62).
ReloadOutcomes == {"ok", "raises"}
\* _try_load_login_status (lines 58-70): its value, _logged_in and the cache
\* file afterwards, and whether itchat was called.
try_load_login_status(pkl, flag, reload, status, removed) ==
    IF ~pkl
    THEN [ret |-> FALSE, logged_in |-> flag, pkl |-> pkl, service |-> FALSE]
    ELSE IF reload = "raises"
    THEN [ret |-> FALSE, logged_in |-> flag, pkl |-> clean_login_cache(pkl, removed),
          service |-> TRUE]
    ELSE IF check_login_status(status)
    THEN [ret |-> TRUE, logged_in |-> TRUE, pkl |-> pkl, service |-> TRUE]
    ELSE [ret |-> FALSE, logged_in |-> logged_in_after_check(flag, status), pkl |-> pkl,
          service |-> TRUE]

\* itchat.auto_login of the retry loop (lines 103-108): it returns, raises an
\* Exception or is interrupted from the keyboard; it may have invoked
\* loginCallback (_on_login) before raising, and has when it returns.
AutoLoginOutcomes ==
    {[result |-> "ok", callback |-> TRUE]}
    \cup {[result |-> r, callback |-> c] : r \in {"error", "interrupt"}, c \in BOOLEAN}

\* The body of send_message's try block (lines 165-199) for one course of
\* the lookup, the validation and the send.
SendMessageOutcomes == {"sent", "no_receiver", "invalid_id", "ret_nonzero",
                 "lookup_raises", "validation_raises", "send_raises"}
send_body(outcome) ==
    CASE outcome = "sent" -> "True"
      [] outcome \in {"no_receiver", "lookup_raises", "invalid_id", "ret_nonzero"} -> "False"
      [] OTHER -> "Exception"
\* try ... except Exception: return False (lines 201-203).
send_message_try(outcome) ==
    IF send_body(outcome) = "Exception" THEN FALSE ELSE send_body(outcome) = "True"

\* A thread that has made no call.  During a call the record holds the
\* arguments and what the call has done so far: auto_login attempts of the
\* loop, cache cleanings and pauses between them, entries into login,
\* whether itchat was called and whether _logged_in was assigned.
IdleThread ==
    [pc |-> "idle", call |-> "none", max_retries |-> 0, clean_cache |-> FALSE,
     ret |-> <<>>, how |-> "none", flag |-> FALSE, attempts |-> 0,
     cleans |-> 0, pauses |-> 0, logins |-> 0, svc |-> FALSE, wrote |-> FALSE]

\* The call returns value v by path how; flag is _logged_in as it returns.
\* The arguments and the counters of the loop end with the call.
Returned(rec, v, how, flag) ==
    [IdleThread EXCEPT !.call = rec.call, !.ret = <<v>>, !.how = how, !.flag = flag,
                       !.logins = rec.logins, !.svc = rec.svc, !.wrote = rec.wrote]
\* login returns v: to the caller of login or ensure_login, or into
\* send_message, which goes on only when ensure_login was true (line 161).
LoginReturn(rec, v, how, flag) ==
    IF rec.call = "send_message" /\ v
    THEN [rec EXCEPT !.pc = "send", !.how = how]
    ELSE Returned(rec, v, how, flag)

\* No manager: the module wechat_utils is not part of the run.
InitNoWeChat ==
    /\ wx_phase = "off"
    /\ wx_calls = 0
    /\ wx_method = "email"
    /\ wx_instance = NoObject
    /\ wx_lock = NoLock
    /\ wx_made = 0
    /\ wx_initialized = FALSE
    /\ wx_init_runs = 0
    /\ wx_logged_in = FALSE
    /\ wx_login_lock = NoLock
    /\ wx_need_wechat = FALSE
    /\ wx_has_wechat = FALSE
    /\ wx_pkl = FALSE
    /\ wx_receiving = FALSE
    /\ wx_thread = [t \in Threads |-> IdleThread]

\* No collection run has started.
InitNoRun ==
    /\ directory = 0
    /\ all_results = <<>>
    /\ high_rising_trends = <<>>
    /\ i = 0
    /\ keywords_batch = <<>>
    /\ tries = 0
    /\ results = <<>>
    /\ item = 0
    /\ success = FALSE
    /\ report_file = NoFile
    /\ ai = 0
    /\ ret = FALSE
    /\ batches = <<>>
    /\ attempt_log = <<>>
    /\ failed = {}
    /\ paces = <<>>
    /\ written = <<>>
    /\ sent = <<>>
    /\ before_batch = Accumulators(<<>>, <<>>)
    /\ fetch_attempts = 0

\* The trigger has not started.
InitTrigger ==
    /\ random_minutes = 0
    /\ schedule_hour = cfg_hour
    /\ schedule_minute = cfg_minute
    /\ next_run = 0
    /\ start_now = 0
    /\ start_target = 0
    /\ long_sleeps = <<>>
    /\ fired = <<>>

\* No call of process_trends has returned and the process has not ended.
InitProcess ==
    /\ last_ret = <<>>
    /\ exit_status = -1

\* No call of check_rising_trends of its own is in progress.
InitNoCall ==
    /\ cr_data = NoneData
    /\ cr_threshold = rising_threshold
    /\ cr_ret = <<>>

InitLocals ==
    /\ pc = "main"
    /\ caller = "main"
    /\ active_runs = 0
    /\ InitNoRun
    /\ InitTrigger
    /\ InitProcess
    /\ InitNoWeChat
    /\ InitNoCall

InitTest ==
    /\ args_test = TRUE
    /\ args_keywords \in {<<>>} \cup OverrideLists
    /\ KEYWORDS \in KeywordLists
    /\ batch_size \in 1..MaxBatchSize
    /\ max_retries \in {1, MaxRetries}
    /\ batch_interval = 300
    /\ cfg_hour = 23
    /\ cfg_minute = 5
    /\ cfg_random_delay = 15
    /\ now \in TestStartTimes

InitSched ==
    /\ args_test = FALSE
    /\ args_keywords \in {<<>>, <<"Voice">>}
    /\ KEYWORDS = <<"Image", "Video">>
    /\ batch_size = 1
    /\ max_retries = 1
    /\ batch_interval \in BatchIntervals
    /\ \E c \in ScheduleConfigs :
         /\ cfg_hour = c.hour
         /\ cfg_minute = c.minute
         /\ cfg_random_delay = c.random_delay_minutes
    /\ now \in SchedStartTimes

Init ==
    /\ InitTest \/ InitSched
    /\ InitLocals

Next ==
    \/ main
    \/ pt_start
    \/ pt_loop
    \/ pkb_fetch
    \/ pkb_items
    \/ pt_after_batch
    \/ pt_report
    \/ pt_send_report
    \/ pt_alerts
    \/ pt_done
    \/ pt_except
    \/ pt_return
    \/ rs_start
    \/ rs_check
    \/ rs_poll_idle
    \/ rs_fire

Spec == Init /\ [][Next]_vars

\* The steps of process_trends.  Its one thread of control goes on until the
\* function returns: every call it makes returns or raises, and every sleep
\* ends.
RunStep ==
    \/ pt_start
    \/ pt_loop
    \/ pkb_fetch
    \/ pkb_items
    \/ pt_after_batch
    \/ pt_report
    \/ pt_send_report
    \/ pt_alerts
    \/ pt_done
    \/ pt_except
    \/ pt_return

\* A --test run from the command line to the end of the script.
InitTestRun ==
    /\ InitTest
    /\ InitLocals

NextTestRun ==
    \/ main
    \/ RunStep

SpecTestRun == InitTestRun /\ [][NextTestRun]_vars /\ WF_vars(RunStep)

(* ------------------------------------------------------------------ *)
(* The parts of the program on inputs of their own                      *)
(* ------------------------------------------------------------------ *)
\* config.py as shipped.
ShippedConfig ==
    /\ batch_size = 5
    /\ max_retries = 3
    /\ batch_interval = 300
    /\ cfg_hour = 23
    /\ cfg_minute = 5
    /\ cfg_random_delay = 15

\* Lines 162-173 over a whole mapping: what a successful batch leaves in
\* all_results and in high_rising_trends.
RECURSIVE Collected(_)
Collected(fetched) ==
    IF fetched = <<>> THEN <<>>
    ELSE LET front == Collected(SubSeq(fetched, 1, Len(fetched) - 1))
             last == fetched[Len(fetched)]
         IN IF Truthy(last[2]) THEN DictSet(front, last[1], last[2]) ELSE front

RECURSIVE CollectedAlerts(_)
CollectedAlerts(fetched) ==
    IF fetched = <<>> THEN <<>>
    ELSE (IF Truthy(Head(fetched)[2])
          THEN AlertsOf(Head(fetched)[1],
                        check_rising_trends(Head(fetched)[2], rising_threshold))
          ELSE <<>>) \o CollectedAlerts(Tail(fetched))

\* A --test run at line 236: its batch loop was one batch of the keywords
\* keys, fetched at the first try with the mapping fetched, all persisted.
AfterBatchLoop(keys, fetched) ==
    /\ ShippedConfig
    /\ args_test = TRUE
    /\ args_keywords = <<>>
    /\ KEYWORDS = keys
    /\ now = AtTime(0, 12, 0)
    /\ pc = "pt_report"
    /\ caller = "main"
    /\ active_runs = 1
    /\ directory = DateOf(now)
    /\ all_results = Collected(fetched)
    /\ high_rising_trends = CollectedAlerts(fetched)
    /\ i = batch_size
    /\ keywords_batch = keys
    /\ tries = 1
    /\ results = fetched
    /\ item = Len(fetched) + 1
    /\ success = TRUE
    /\ report_file = NoFile
    /\ ai = 0
    /\ ret = FALSE
    /\ batches = <<keys>>
    /\ attempt_log = <<"ok">>
    /\ failed = {}
    /\ paces = <<>>
    /\ written = <<>>
    /\ sent = <<>>
    /\ before_batch = Accumulators(<<>>, <<>>)
    /\ fetch_attempts = 1
    /\ InitTrigger
    /\ InitProcess
    /\ InitNoWeChat
    /\ InitNoCall

\* A --test run on twelve keywords with config.py as shipped: three batches
\* of 5, 5 and 2 keywords, up to three tries a batch, and up to twelve
\* alerts in two groups.
InitEndToEnd ==
    /\ ShippedConfig
    /\ args_test = TRUE
    /\ args_keywords = <<>>
    /\ KEYWORDS = EndToEndKeywords
    /\ now \in TestStartTimes
    /\ InitLocals

NextEndToEnd ==
    \/ main
    \/ pt_start
    \/ pt_loop
    \/ pkb_fetch
    \/ pkb_items
    \/ pt_after_batch
    \/ pt_report
    \/ pt_send_report
    \/ pt_alerts
    \/ pt_done
    \/ pt_except
    \/ pt_return

SpecEndToEnd == InitEndToEnd /\ [][NextEndToEnd]_vars

\* generate_daily_report on the results of one or two keywords, each value
\* None or a dict whose 'rising' and 'top' are absent, None, or a frame of
\* 0..MaxReportRows rows.
MaxReportRows == 2
ReportRowsUpTo(n) == [k \in 1..n |-> Row(k, 400 + 100 * k)]
ReportFrames ==
    {AbsentFrame, NoneFrame} \cup {DataFrame(ReportRowsUpTo(n)) : n \in 0..MaxReportRows}
ReportDataOptions ==
    {NoneData} \cup {DictData(r, t) : r \in ReportFrames, t \in ReportFrames}
ReportKeyLists == {<<"Image">>, <<"Image", "Video">>}

InitReport ==
    \E keys \in ReportKeyLists :
      \E f \in [1..Len(keys) -> ReportDataOptions] :
        AfterBatchLoop(keys, [n \in 1..Len(keys) |-> <<keys[n], f[n]>>])

NextReport == pt_report

SpecReport == InitReport /\ [][NextReport]_vars

\* The report and alert phases on 0..MaxAlerts alerts: one keyword whose
\* rising frame has that many rows above the threshold.
HighRows(n) == [k \in 1..n |-> Row(k, rising_threshold + k)]

InitDispatch ==
    \E n \in 0..MaxAlerts :
      AfterBatchLoop(<<"Image">>,
                     << <<"Image", DictData(DataFrame(HighRows(n)), NoneFrame)>> >>)

NextDispatch ==
    \/ pt_report
    \/ pt_send_report
    \/ pt_alerts
    \/ pt_done
    \/ pt_except
    \/ pt_return

SpecDispatch == InitDispatch /\ [][NextDispatch]_vars

\* The target computation of run_scheduler for every configured hour and
\* minute, a random delay of 0, 15, MaxRandomDelay or 121 minutes, and every
\* draw.
RandomDelays == {0, 15, MaxRandomDelay, 2 * MinutesPerHour + 1}

InitTarget ==
    /\ KEYWORDS = <<>>
    /\ batch_size = 5
    /\ max_retries = 3
    /\ batch_interval = 300
    /\ cfg_hour \in 0..(HoursPerDay - 1)
    /\ cfg_minute \in 0..(MinutesPerHour - 1)
    /\ cfg_random_delay \in RandomDelays
    /\ args_test = FALSE
    /\ args_keywords = <<>>
    /\ now = AtTime(0, 12, 0)
    /\ pc = "rs_start"
    /\ caller = "main"
    /\ active_runs = 0
    /\ InitNoRun
    /\ InitTrigger
    /\ InitProcess
    /\ InitNoWeChat
    /\ InitNoCall

NextTarget == rs_start

SpecTarget == InitTarget /\ [][NextTarget]_vars

\* One call of check_rising_trends(data, keyword, threshold).
cr_call ==
    /\ pc = "cr_call"
    /\ cr_ret' = check_rising_trends(cr_data, cr_threshold)
    /\ pc' = "cr_done"
    /\ UNCHANGED <<cfgVars, caller, now, schedVars, runVars, runLog, schedLog,
                   cr_data, cr_threshold, wxVars>>

DetectRows == {Row("a", 100), Row("b", 500), Row("c", 501), Row("d", 502)}
DetectInputs ==
    {NoneData, DictData(AbsentFrame, AbsentFrame),
     DictData(AbsentFrame, DataFrame(<<Row("t", 900)>>)),
     DictData(NoneFrame, DataFrame(<<Row("t", 900)>>))}
    \cup {DictData(DataFrame(rows), NoneFrame) : rows \in SeqsUpTo(DetectRows, MaxRows)}
DetectThresholds == {rising_threshold, 501}

InitDetect ==
    /\ KEYWORDS = <<>>
    /\ ShippedConfig
    /\ args_test = FALSE
    /\ args_keywords = <<>>
    /\ now = AtTime(0, 12, 0)
    /\ pc = "cr_call"
    /\ caller = "main"
    /\ active_runs = 0
    /\ InitNoRun
    /\ InitTrigger
    /\ InitProcess
    /\ InitNoWeChat
    /\ cr_data \in DetectInputs
    /\ cr_threshold \in DetectThresholds
    /\ cr_ret = <<>>

NextDetect == cr_call

SpecDetect == InitDetect /\ [][NextDetect]_vars

(* ------------------------------------------------------------------ *)
(* wechat_utils.py: construction, login and sending                     *)
(* ------------------------------------------------------------------ *)
\* The body of __init__ after the _initialized check (lines 27-43).
\* _check_wechat_available is true: itchat is imported at line 2.
init_body(reload, status, removed) ==
    LET need == wx_method \in {"wechat", "both"}
        r == IF need
             THEN try_load_login_status(wx_pkl, FALSE, reload, status, removed)
             ELSE [ret |-> FALSE, logged_in |-> FALSE, pkl |-> wx_pkl, service |-> FALSE]
    IN  /\ wx_initialized' = TRUE
        /\ wx_login_lock' = NoLock
        /\ wx_need_wechat' = need
        /\ wx_has_wechat' = need
        /\ wx_logged_in' = r.logged_in
        /\ wx_pkl' = r.pkl
        /\ wx_init_runs' = wx_init_runs + 1

\* Importing wechat_utils without the construction of line 273.
wx_import_lazy ==
    /\ wx_phase = "import"
    /\ wx_phase' = "run"
    /\ UNCHANGED <<monitorVars, wx_calls, wx_method, wx_instance, wx_lock, wx_made, wx_initialized,
                   wx_init_runs, wx_logged_in, wx_login_lock, wx_need_wechat,
                   wx_has_wechat, wx_pkl, wx_receiving, wx_thread>>

\* Importing wechat_utils: the importing thread reaches
\* _manager = WeChatManager() (line 273).  No other thread can use the
\* module before the import has finished.
wx_import ==
    /\ wx_phase = "import"
    /\ wx_phase' = "importing"
    /\ wx_thread' = [wx_thread EXCEPT ![MainThread] =
                        [IdleThread EXCEPT !.pc = "new", !.call = "construct"]]
    /\ UNCHANGED <<monitorVars, wx_calls, wx_method, wx_instance, wx_lock, wx_made, wx_initialized,
                   wx_init_runs, wx_logged_in, wx_login_lock, wx_need_wechat,
                   wx_has_wechat, wx_pkl, wx_receiving>>

\* WeChatManager() returns the instance.
Constructed(rec, how, flag) == Returned(rec, wx_instance, how, flag)
\* When the construction of line 273 returns, the import is over.
after_construction == IF wx_phase = "importing" THEN "run" ELSE wx_phase

\* A thread starts a call: WeChatManager(), login(max_retries, clean_cache),
\* ensure_login() or send_message(msg, receiver).
wx_call(t) ==
    LET rec == wx_thread[t]
        start(call, m, c, pos) ==
            [IdleThread EXCEPT !.pc = pos, !.call = call, !.max_retries = m,
                               !.clean_cache = c]
    IN  /\ wx_phase = "run"
        /\ rec.pc = "idle"
        /\ wx_calls < MaxCalls
        /\ wx_calls' = wx_calls + 1
        /\ \/ wx_thread' = [wx_thread EXCEPT ![t] = start("construct", 0, FALSE, "new")]
           \/ \E m \in 0..MaxLoginRetries, c \in BOOLEAN :
                wx_thread' = [wx_thread EXCEPT ![t] = start("login", m, c, "login")]
           \/ \E call \in {"ensure_login", "send_message"} :
                wx_thread' = [wx_thread EXCEPT ![t] = start(call, 0, FALSE, "ensure")]
        /\ UNCHANGED <<monitorVars, wx_phase, wx_method, wx_instance, wx_lock, wx_made,
                       wx_initialized, wx_init_runs, wx_logged_in, wx_login_lock,
                       wx_need_wechat, wx_has_wechat, wx_pkl, wx_receiving>>

\* __new__: with cls._lock (line 17).
wx_new_acquire(t) ==
    /\ wx_thread[t].pc = "new"
    /\ wx_lock = NoLock
    /\ wx_lock' = t
    /\ wx_thread' = [wx_thread EXCEPT ![t].pc = "new_locked"]
    /\ UNCHANGED <<monitorVars, wx_calls, wx_phase, wx_method, wx_instance, wx_made, wx_initialized,
                   wx_init_runs, wx_logged_in, wx_login_lock, wx_need_wechat,
                   wx_has_wechat, wx_pkl, wx_receiving>>

\* __new__ inside the lock (lines 18-21): create the instance if there is
\* none, return it and release the lock.
wx_new(t) ==
    /\ wx_thread[t].pc = "new_locked"
    /\ IF wx_instance = NoObject
       THEN /\ wx_instance' = wx_made + 1
            /\ wx_made' = wx_made + 1
            /\ wx_initialized' = FALSE
       ELSE UNCHANGED <<wx_instance, wx_made, wx_initialized>>
    /\ wx_lock' = NoLock
    /\ wx_thread' = [wx_thread EXCEPT ![t].pc = "init"]
    /\ UNCHANGED <<monitorVars, wx_calls, wx_phase, wx_method, wx_init_runs, wx_logged_in,
                   wx_login_lock, wx_need_wechat, wx_has_wechat, wx_pkl, wx_receiving>>

\* __init__: if self._initialized: return (lines 24-25).
wx_init(t) ==
    LET rec == wx_thread[t] IN
    /\ rec.pc = "init"
    /\ wx_thread' = [wx_thread EXCEPT ![t] =
                        IF wx_initialized
                        THEN Constructed(rec, "initialized", wx_logged_in)
                        ELSE [rec EXCEPT !.pc = "init_body"]]
    /\ wx_phase' = IF wx_initialized THEN after_construction ELSE wx_phase
    /\ UNCHANGED <<monitorVars, wx_calls, wx_method, wx_instance, wx_lock, wx_made,
                   wx_initialized, wx_init_runs, wx_logged_in, wx_login_lock,
                   wx_need_wechat, wx_has_wechat, wx_pkl, wx_receiving>>

\* __init__: the body (lines 27-43).
wx_init_body(t) ==
    LET rec == wx_thread[t] IN
    /\ rec.pc = "init_body"
    /\ \E reload \in ReloadOutcomes, status \in StatusOutcomes, removed \in BOOLEAN :
         init_body(reload, status, removed)
    /\ wx_thread' = [wx_thread EXCEPT ![t] =
                        Constructed([rec EXCEPT !.wrote = TRUE], "constructed",
                                    wx_logged_in')]
    /\ wx_phase' = after_construction
    /\ UNCHANGED <<monitorVars, wx_calls, wx_method, wx_instance, wx_lock, wx_made,
                   wx_receiving>>

\* login: with self._login_lock (line 90).
wx_login_acquire(t) ==
    /\ wx_thread[t].pc = "login"
    /\ wx_login_lock = NoLock
    /\ wx_login_lock' = t
    /\ wx_thread' = [wx_thread EXCEPT ![t].pc = "login_locked", ![t].logins = @ + 1]
    /\ UNCHANGED <<monitorVars, wx_calls, wx_phase, wx_method, wx_instance, wx_lock, wx_made,
                   wx_initialized, wx_init_runs, wx_logged_in, wx_need_wechat,
                   wx_has_wechat, wx_pkl, wx_receiving>>

\* Lines 92-93 returning True without leaving the with block.
wx_login_check_keep_lock(t) ==
    LET rec == wx_thread[t] IN
    /\ rec.pc = "login_locked"
    /\ IF wx_logged_in
       THEN \E o \in StatusOutcomes :
              LET flag == logged_in_after_check(wx_logged_in, o)
                  r1 == [rec EXCEPT !.svc = TRUE, !.wrote = @ \/ o = "raises"]
              IN  /\ wx_logged_in' = flag
                  /\ IF check_login_status(o)
                     THEN /\ wx_login_lock' = wx_login_lock
                          /\ wx_thread' = [wx_thread EXCEPT ![t] =
                                              LoginReturn(r1, TRUE, "valid", flag)]
                     ELSE /\ wx_login_lock' = wx_login_lock
                          /\ wx_thread' = [wx_thread EXCEPT ![t] =
                                              [r1 EXCEPT !.pc = "login_cache"]]
       ELSE /\ wx_thread' = [wx_thread EXCEPT ![t].pc = "login_cache"]
            /\ UNCHANGED <<wx_logged_in, wx_login_lock>>
    /\ UNCHANGED <<monitorVars, wx_calls, wx_phase, wx_method, wx_instance, wx_lock, wx_made,
                   wx_initialized, wx_init_runs, wx_need_wechat, wx_has_wechat, wx_pkl,
                   wx_receiving>>

\* login: if self._logged_in and self.check_login_status(): return True
\* (lines 92-93).
wx_login_check(t) ==
    LET rec == wx_thread[t] IN
    /\ rec.pc = "login_locked"
    /\ IF wx_logged_in
       THEN \E o \in StatusOutcomes :
              LET flag == logged_in_after_check(wx_logged_in, o)
                  r1 == [rec EXCEPT !.svc = TRUE, !.wrote = @ \/ o = "raises"]
              IN  /\ wx_logged_in' = flag
                  /\ IF check_login_status(o)
                     THEN /\ wx_login_lock' = NoLock
                          /\ wx_thread' = [wx_thread EXCEPT ![t] =
                                              LoginReturn(r1, TRUE, "valid", flag)]
                     ELSE /\ wx_login_lock' = wx_login_lock
                          /\ wx_thread' = [wx_thread EXCEPT ![t] =
                                              [r1 EXCEPT !.pc = "login_cache"]]
       ELSE /\ wx_thread' = [wx_thread EXCEPT ![t].pc = "login_cache"]
            /\ UNCHANGED <<wx_logged_in, wx_login_lock>>
    /\ UNCHANGED <<monitorVars, wx_calls, wx_phase, wx_method, wx_instance, wx_lock, wx_made,
                   wx_initialized, wx_init_runs, wx_need_wechat, wx_has_wechat, wx_pkl,
                   wx_receiving>>

\* login: clean the cache when asked to, else try the saved login status
\* and return True when it is valid (lines 96-99).
wx_login_cache(t) ==
    LET rec == wx_thread[t] IN
    /\ rec.pc = "login_cache"
    /\ IF rec.clean_cache
       THEN /\ \E removed \in BOOLEAN : wx_pkl' = clean_login_cache(wx_pkl, removed)
            /\ wx_thread' = [wx_thread EXCEPT ![t].pc = "login_try"]
            /\ UNCHANGED <<wx_logged_in, wx_login_lock>>
       ELSE \E reload \in ReloadOutcomes, status \in StatusOutcomes, removed \in BOOLEAN :
              LET r == try_load_login_status(wx_pkl, wx_logged_in, reload, status, removed)
                  r1 == [rec EXCEPT !.svc = @ \/ r.service,
                                    !.wrote = @ \/ r.logged_in # wx_logged_in]
              IN  /\ wx_pkl' = r.pkl
                  /\ wx_logged_in' = r.logged_in
                  /\ IF r.ret
                     THEN /\ wx_login_lock' = NoLock
                          /\ wx_thread' = [wx_thread EXCEPT ![t] =
                                              LoginReturn(r1, TRUE, "loaded", r.logged_in)]
                     ELSE /\ wx_login_lock' = wx_login_lock
                          /\ wx_thread' = [wx_thread EXCEPT ![t] =
                                              [r1 EXCEPT !.pc = "login_try"]]
    /\ UNCHANGED <<monitorVars, wx_calls, wx_phase, wx_method, wx_instance, wx_lock, wx_made,
                   wx_initialized, wx_init_runs, wx_need_wechat, wx_has_wechat,
                   wx_receiving>>

\* login: one turn of for attempt in range(max_retries), or the end of the
\* loop (lines 101-122).  The loop variable attempt is the number of
\* attempts made before this turn.
wx_login_attempt(t) ==
    LET rec == wx_thread[t] IN
    /\ rec.pc = "login_try"
    /\ IF rec.attempts < rec.max_retries
       THEN \E o \in AutoLoginOutcomes, removed \in BOOLEAN :
              LET called == o.callback \/ wx_logged_in
                  r1 == [rec EXCEPT !.svc = TRUE, !.attempts = @ + 1,
                                    !.wrote = @ \/ o.callback]
              IN  CASE o.result = "ok" ->
                         /\ wx_logged_in' = TRUE
                         /\ wx_pkl' = TRUE
                         /\ wx_receiving' = TRUE
                         /\ wx_login_lock' = NoLock
                         /\ wx_thread' = [wx_thread EXCEPT ![t] =
                                             LoginReturn([r1 EXCEPT !.wrote = TRUE], TRUE,
                                                         "attempt", TRUE)]
                    [] o.result = "interrupt" ->
                         /\ wx_logged_in' = called
                         /\ wx_login_lock' = NoLock
                         /\ wx_thread' = [wx_thread EXCEPT ![t] =
                                             LoginReturn(r1, FALSE, "cancelled", called)]
                         /\ UNCHANGED <<wx_pkl, wx_receiving>>
                    [] o.result = "error" ->
                         /\ wx_logged_in' = called
                         /\ IF rec.attempts < rec.max_retries - 1
                            THEN /\ wx_pkl' = clean_login_cache(wx_pkl, removed)
                                 /\ wx_thread' = [wx_thread EXCEPT ![t] =
                                                     [r1 EXCEPT !.cleans = @ + 1,
                                                                !.pauses = @ + 1]]
                            ELSE /\ wx_pkl' = wx_pkl
                                 /\ wx_thread' = [wx_thread EXCEPT ![t] =
                                                     r1]
                         /\ UNCHANGED <<wx_login_lock, wx_receiving>>
       ELSE /\ wx_logged_in' = FALSE
            /\ wx_login_lock' = NoLock
            /\ wx_thread' = [wx_thread EXCEPT ![t] =
                                LoginReturn([rec EXCEPT !.wrote = TRUE], FALSE,
                                            "exhausted", FALSE)]
            /\ UNCHANGED <<wx_pkl, wx_receiving>>
    /\ UNCHANGED <<monitorVars, wx_calls, wx_phase, wx_method, wx_instance, wx_lock, wx_made,
                   wx_initialized, wx_init_runs, wx_need_wechat, wx_has_wechat>>

\* ensure_login with the two configuration checks (lines 147-153) left out.
wx_ensure_unconditional(t) ==
    LET rec == wx_thread[t] IN
    /\ rec.pc = "ensure"
    /\ wx_thread' = [wx_thread EXCEPT ![t] =
                        [rec EXCEPT !.pc = "login",
                                    !.max_retries = login_default_retries]]
    /\ UNCHANGED <<monitorVars, wx_calls, wx_phase, wx_method, wx_instance, wx_lock, wx_made,
                   wx_initialized, wx_init_runs, wx_logged_in, wx_login_lock,
                   wx_need_wechat, wx_has_wechat, wx_pkl, wx_receiving>>

\* ensure_login (lines 147-157), called directly or by send_message
\* (line 161): False when WeChat is not configured or not available, True
\* when the login is valid, else the value of login().
wx_ensure(t) ==
    LET rec == wx_thread[t] IN
    /\ rec.pc = "ensure"
    /\ IF ~wx_need_wechat
       THEN /\ wx_thread' = [wx_thread EXCEPT ![t] =
                                Returned(rec, FALSE, "not_needed", wx_logged_in)]
            /\ UNCHANGED wx_logged_in
       ELSE IF ~wx_has_wechat
       THEN /\ wx_thread' = [wx_thread EXCEPT ![t] =
                                Returned(rec, FALSE, "not_available", wx_logged_in)]
            /\ UNCHANGED wx_logged_in
       ELSE IF wx_logged_in
       THEN \E o \in StatusOutcomes :
              LET flag == logged_in_after_check(wx_logged_in, o)
                  r1 == [rec EXCEPT !.svc = TRUE, !.wrote = @ \/ o = "raises"]
              IN  /\ wx_logged_in' = flag
                  /\ wx_thread' = [wx_thread EXCEPT ![t] =
                                      IF check_login_status(o)
                                      THEN LoginReturn(r1, TRUE, "valid", flag)
                                      ELSE [r1 EXCEPT !.pc = "login",
                                                      !.max_retries = login_default_retries]]
       ELSE /\ wx_thread' = [wx_thread EXCEPT ![t] =
                                [rec EXCEPT !.pc = "login",
                                            !.max_retries = login_default_retries]]
            /\ UNCHANGED wx_logged_in
    /\ UNCHANGED <<monitorVars, wx_calls, wx_phase, wx_method, wx_instance, wx_lock, wx_made,
                   wx_initialized, wx_init_runs, wx_login_lock, wx_need_wechat,
                   wx_has_wechat, wx_pkl, wx_receiving>>

\* send_message after ensure_login was true: the try block (lines 164-203).
wx_send(t) ==
    LET rec == wx_thread[t] IN
    /\ rec.pc = "send"
    /\ \E o \in SendMessageOutcomes :
         wx_thread' = [wx_thread EXCEPT ![t] =
                          Returned([rec EXCEPT !.svc = TRUE], send_message_try(o),
                                   send_body(o), wx_logged_in)]
    /\ UNCHANGED <<monitorVars, wx_calls, wx_phase, wx_method, wx_instance, wx_lock, wx_made,
                   wx_initialized, wx_init_runs, wx_logged_in, wx_login_lock,
                   wx_need_wechat, wx_has_wechat, wx_pkl, wx_receiving>>

\* _on_logout (lines 129-132): itchat's receiving thread, started by a
\* successful auto_login, reports the end of the session.
wx_on_logout ==
    /\ wx_receiving
    /\ wx_receiving' = FALSE
    /\ wx_logged_in' = FALSE
    /\ UNCHANGED <<monitorVars, wx_calls, wx_phase, wx_method, wx_instance, wx_lock, wx_made,
                   wx_initialized, wx_init_runs, wx_login_lock, wx_need_wechat,
                   wx_has_wechat, wx_pkl, wx_thread>>

\* One step of thread t.
wx_step(t) ==
    \/ wx_call(t)
    \/ wx_new_acquire(t)
    \/ wx_new(t)
    \/ wx_init(t)
    \/ wx_init_body(t)
    \/ wx_login_acquire(t)
    \/ wx_login_check(t)
    \/ wx_login_cache(t)
    \/ wx_login_attempt(t)
    \/ wx_ensure(t)
    \/ wx_send(t)

\* The process is about to import wechat_utils; trends_monitor is not running.
InitWeChat ==
    /\ KEYWORDS = <<>>
    /\ ShippedConfig
    /\ args_test = FALSE
    /\ args_keywords = <<>>
    /\ now = AtTime(0, 12, 0)
    /\ pc = "wx"
    /\ caller = "main"
    /\ active_runs = 0
    /\ InitNoRun
    /\ InitTrigger
    /\ InitProcess
    /\ InitNoCall
    /\ wx_phase = "import"
    /\ wx_calls = 0
    /\ wx_method \in WeChatMethods
    /\ wx_instance = NoObject
    /\ wx_lock = NoLock
    /\ wx_made = 0
    /\ wx_initialized = FALSE
    /\ wx_init_runs = 0
    /\ wx_logged_in = FALSE
    /\ wx_login_lock = NoLock
    /\ wx_need_wechat = FALSE
    /\ wx_has_wechat = FALSE
    /\ wx_pkl \in BOOLEAN
    /\ wx_receiving = FALSE
    /\ wx_thread = [t \in Threads |-> IdleThread]

NextWeChat ==
    \/ wx_import
    \/ \E t \in Threads : wx_step(t)
    \/ wx_on_logout

SpecWeChat == InitWeChat /\ [][NextWeChat]_vars


(* ------------------------------------------------------------------ *)
(* Properties of the program                                            *)
(* ------------------------------------------------------------------ *)
\* Positions inside process_trends, and those after its batch loop.
RunPcs == {"pt_start", "pt_loop", "pkb_fetch", "pkb_items", "pt_after_batch",
           "pt_report", "pt_send_report", "pt_alerts", "pt_done", "pt_except",
           "pt_return"}
PastLoopPcs == {"pt_report", "pt_send_report", "pt_alerts", "pt_done"}
TriggerPcs == {"rs_start", "rs_check", "rs_poll"}

AllFail(log) == \A n \in 1..Len(log) : log[n] = "fail"

\* C1: the batch loop cuts KEYWORDS into ceil(N/B) batches of 1..B keywords
\* each, and the batches in processing order concatenate to KEYWORDS: at
\* every moment the batches started so far are a prefix of the list, and
\* once the loop has ended they are the whole list.
C1_BatchesPartitionKeywords ==
    /\ \A n \in 1..Len(batches) :
          Len(batches[n]) >= 1 /\ Len(batches[n]) <= batch_size
    /\ Len(Flatten(batches)) <= Len(KEYWORDS)
    /\ Flatten(batches) = SubSeq(KEYWORDS, 1, Len(Flatten(batches)))
    /\ pc \in PastLoopPcs =>
          /\ Len(batches) = CeilDiv(Len(KEYWORDS), batch_size)
          /\ Flatten(batches) = KEYWORDS

\* Three keywords with batch_size 2: batches of 2 and 1 after the loop.
C1_Witness ==
    /\ pc = "pt_report"
    /\ Len(KEYWORDS) = 3
    /\ batch_size = 2
    /\ Len(batches) = 2
    /\ Len(batches[1]) = 2
    /\ Len(batches[2]) = 1

\* C2: get_trends_with_retry makes a try at a time; no try follows a
\* success; while it is still trying every try so far failed and fewer than
\* max_retries were made; when it returned, the last try (number k <=
\* max_retries) is the only success and the value is a mapping for the
\* batch; when its error reached the caller, exactly max_retries tries were
\* made, all failed, and the batch counts as failed.
C2_RetryAttempts ==
    /\ Len(attempt_log) = tries
    /\ tries <= max_retries
    /\ AllFail(SubSeq(attempt_log, 1, Len(attempt_log) - 1))
    /\ pc = "pkb_fetch" => AllFail(attempt_log) /\ tries < max_retries
    /\ pc = "pkb_items" =>
          /\ tries >= 1
          /\ attempt_log[tries] = "ok"
          /\ [n \in 1..Len(results) |-> results[n][1]] = Distinct(keywords_batch)
    /\ (pc # "pkb_fetch" /\ tries >= 1 /\ AllFail(attempt_log)) =>
          /\ tries = max_retries
          /\ pc = "pt_after_batch" => ~success

\* A fetch that failed once and succeeded on the second try.
C2_Witness ==
    /\ pc = "pkb_items"
    /\ max_retries = 2
    /\ attempt_log = <<"fail", "ok">>

\* C3: once a batch has failed by exhausting its retries, the run is not
\* aborted: the loop goes on with the next batch in order, and whenever the
\* run is past its batch loop (report phase, alert phase, or any later
\* position) every batch of the list has been attempted.
C3_FailedBatchSkipped ==
    (\E f \in failed : f.cause = "fetch") =>
        /\ pc \in RunPcs
        /\ pc = "pt_loop" => i = Len(batches) * batch_size
        /\ pc \in PastLoopPcs \cup {"pt_except", "pt_return"} =>
              /\ Len(batches) = CeilDiv(Len(KEYWORDS), batch_size)
              /\ Flatten(batches) = KEYWORDS

\* The first of three batches failed all its tries, and the run is in its
\* alert phase after the report was sent.
C3_Witness ==
    /\ pc = "pt_alerts"
    /\ [batch |-> 1, cause |-> "fetch"] \in failed
    /\ Len(batches) = 3
    /\ Len(sent) = 1
    /\ sent[1].kind = "report"

\* C8: a trigger started at or past today's target starts no collection run
\* before the same time of day on the following day.
C8_NoCatchUpAtStartup ==
    (pc \notin {"main", "rs_start", "rs_check"} /\ ~args_test
        /\ start_now >= start_target) =>
        \A n \in 1..Len(fired) : fired[n] >= start_target + DayMinutes

\* A start exactly at the target whose first run began a day later.
C8_Witness ==
    /\ ~args_test
    /\ start_now = start_target
    /\ Len(fired) = 1
    /\ fired[1] = start_target + DayMinutes
    /\ pc = "pt_start"

\* C9: at most one collection run is in progress, the single control
\* position is inside it exactly while it is, and from the firing until the
\* run returns the trigger has neither fired again nor rescheduled its job,
\* however long the run lasts.
C9_OneRunAtATime ==
    /\ active_runs \in {0, 1}
    /\ active_runs = 1 <=> pc \in RunPcs
    /\ (pc \in RunPcs /\ caller = "sched") =>
          /\ Len(fired) >= 1
          /\ next_run <= fired[Len(fired)]
          /\ fired[Len(fired)] <= now
          /\ \A n \in 1..(Len(fired) - 1) : fired[n] < fired[Len(fired)]

\* A run started by the trigger that is still going on more than a day
\* after it fired, past the next scheduled time.
C9_Witness ==
    /\ pc = "pkb_fetch"
    /\ caller = "sched"
    /\ active_runs = 1
    /\ Len(fired) = 1
    /\ now > fired[1] + DayMinutes

\* The error alerts among the notifications of the run.
ErrorsSent == {n \in 1..Len(sent) : sent[n].kind = "error"}

\* C11: an error that reaches the outer handler of process_trends aborts
\* the run: the handler attempts exactly one error alert, as the last
\* notification of the run, and starts no batch, report or alert step;
\* process_trends returns False; and, called by the trigger, the job is
\* scheduled again for the next occurrence of the same target time, the
\* trigger goes back to its poll loop and the next run fires at that
\* target, whether the error alert was delivered or not.
C11_RunLevelErrorAborts ==
    /\ [](/\ Cardinality(ErrorsSent) <= 1
          /\ pc = "pt_except" => ErrorsSent = {}
          /\ ErrorsSent # {} =>
                /\ pc = "pt_return"
                /\ ret = FALSE
                /\ ErrorsSent = {Len(sent)}
          /\ (pc = "pt_return" /\ ~ret) => ErrorsSent # {}
          /\ (pc \in RunPcs /\ caller = "sched" /\ last_ret = <<FALSE>>) =>
                /\ Len(fired) >= 2
                /\ fired[Len(fired)] = next_run
                /\ fired[Len(fired)] > fired[Len(fired) - 1]
                /\ TimeOfDay(next_run) =
                      schedule_hour * MinutesPerHour + schedule_minute)
    /\ [][pc = "pt_except" =>
            /\ pc' = "pt_return"
            /\ ret' = FALSE
            /\ Len(sent') = Len(sent) + 1
            /\ SubSeq(sent', 1, Len(sent)) = sent
            /\ UNCHANGED <<batches, attempt_log, failed, paces, written,
                           all_results, high_rising_trends>>]_vars
    /\ [][(pc = "pt_return" /\ ~ret /\ caller = "sched") =>
            /\ pc' = "rs_poll"
            /\ last_ret' = <<FALSE>>
            /\ next_run' > now
            /\ next_run' <= now + DayMinutes
            /\ TimeOfDay(next_run') =
                  schedule_hour * MinutesPerHour + schedule_minute
            /\ UNCHANGED <<schedule_hour, schedule_minute, fired, exit_status>>]_vars

\* The first run of the trigger returned False and the second run has
\* started, one day after the first, at the target.
C11_Witness ==
    /\ pc = "pt_start"
    /\ caller = "sched"
    /\ last_ret = <<FALSE>>
    /\ Len(fired) = 2
    /\ fired[2] = fired[1] + DayMinutes
    /\ fired[2] = next_run

\* C12: when the fetch of a batch succeeded, a failure to persist one
\* keyword's result does not abort the batch: process_keywords_batch
\* returns with every keyword of the mapping that has data recorded in
\* all_results with that data, and the batch counts as processed.
C12_PersistenceFailureContained ==
    (pc = "pt_after_batch" /\ attempt_log # <<>>
        /\ attempt_log[Len(attempt_log)] = "ok") =>
        /\ success
        /\ \A n \in 1..Len(results) :
              Truthy(results[n][2]) =>
                 /\ results[n][1] \in DictKeys(all_results)
                 /\ DictGet(all_results, results[n][1]) = results[n][2]

\* C13: every batch but the last of the list, a failed one included, is
\* followed by one pacing sleep of batch_interval seconds plus a jitter in
\* [0, 60) before the fetch of the next batch starts, and the last batch is
\* followed by none.
C13_PacingAfterEveryBatch ==
    /\ \A n \in 1..Len(paces) :
          /\ paces[n].after = n
          /\ paces[n].seconds >= batch_interval
          /\ paces[n].seconds < batch_interval + 60
    /\ (pc = "pkb_fetch" /\ tries = 0) => Len(paces) = Len(batches) - 1
    /\ (pc \in PastLoopPcs /\ batches # <<>>) => Len(paces) = Len(batches) - 1
    /\ (pc \in PastLoopPcs /\ batches = <<>>) => paces = <<>>

\* C17: while it waits for its target the trigger blocks only in polling
\* sleeps of 60 seconds: on no startup path does it make one sleep that
\* spans the time left until the target.
C17_OnlyPollingSleeps ==
    \A n \in 1..Len(long_sleeps) : long_sleeps[n] * 60 <= poll_seconds

\* C17 as amended: in its poll loop the trigger blocks only in sleeps of 60
\* seconds, before and after every run; the one other sleep is made once,
\* before the loop, exactly when the trigger is started at or past today's
\* target, and it spans the whole time until the same time of day tomorrow.
C17_PollingAfterStartupSleep ==
    /\ [](/\ Len(long_sleeps) <= 1
          /\ long_sleeps # <<>> =>
                /\ start_now >= start_target
                /\ long_sleeps[1] = start_target + DayMinutes - start_now
          /\ (pc \notin {"main", "rs_start", "rs_check"} /\ ~args_test) =>
                (long_sleeps # <<>> <=> start_now >= start_target))
    /\ [][long_sleeps' # long_sleeps => pc = "rs_check"]_vars
    /\ [][(pc = "rs_poll" /\ pc' = "rs_poll") =>
            now' - now = poll_seconds \div 60]_vars
    /\ [][(pc = "pt_return" /\ caller = "sched") =>
            (pc' = "rs_poll" /\ now' - now = poll_seconds \div 60)]_vars

\* A trigger started exactly at its target slept a whole day in one sleep,
\* ran the job, and has been polling since.
C17_Witness ==
    /\ pc = "rs_poll"
    /\ long_sleeps = <<DayMinutes>>
    /\ Len(fired) = 1
    /\ now > fired[1] + 1

\* C18: a run writes at most one report file, and the date in the file's
\* name is the date that names the run's day directory, the date at the
\* start of the run, also when the run goes on past midnight.
C18_ReportNamedByRunDate ==
    /\ Len(written) <= 1
    /\ \A n \in 1..Len(written) :
          /\ written[n].dir = directory
          /\ written[n].date = written[n].dir

\* C19: with --test the program makes one call of process_trends, at once
\* and from the command line, and never enters run_scheduler: nothing is
\* scheduled, slept or fired, and when the call has returned the program
\* has ended.  With --keywords given as well, that run batches and fetches
\* the override list and nothing else.  Without --test the program enters
\* run_scheduler, never ends, and every run is started by the trigger at a
\* time after the start of the program.
C19_RunOnceFlag ==
    /\ [](/\ args_test =>
                /\ pc \in {"main", "exit"} \cup RunPcs
                /\ fired = <<>> /\ long_sleeps = <<>> /\ next_run = 0
                /\ pc \in RunPcs => caller = "main"
                /\ pc = "exit" <=> last_ret # <<>>
                /\ pc = "exit" => active_runs = 0
          /\ (args_test /\ args_keywords # <<>> /\ pc # "main") =>
                /\ KEYWORDS = args_keywords
                /\ Len(Flatten(batches)) <= Len(args_keywords)
                /\ Flatten(batches) =
                      SubSeq(args_keywords, 1, Len(Flatten(batches)))
                /\ pc \in {"pkb_fetch", "pkb_items"} =>
                      keywords_batch = batches[Len(batches)]
                /\ pc = "pkb_items" =>
                      [n \in 1..Len(results) |-> results[n][1]]
                          = Distinct(keywords_batch)
                /\ pc \in PastLoopPcs => Flatten(batches) = args_keywords
          /\ ~args_test =>
                /\ pc \in {"main"} \cup TriggerPcs \cup RunPcs
                /\ exit_status = -1
                /\ pc \in RunPcs => (caller = "sched" /\ fired # <<>>)
                /\ last_ret # <<>> => fired # <<>>
                /\ \A n \in 1..Len(fired) : fired[n] > start_now)
    /\ [][(pc = "main" /\ args_test) => (pc' = "pt_start" /\ now' = now)]_vars
    /\ [][(pc = "main" /\ ~args_test) => (pc' = "rs_start" /\ now' = now)]_vars
    /\ [][(args_test /\ pc' = "pt_start") => pc = "main"]_vars
    /\ [][pc # "exit" /\ pc' # "main"]_vars

\* A --test run with --keywords Text Voice is past its batch loop: its
\* batches are the override list, and the trigger was never entered.
C19_Witness ==
    /\ pc = "pt_report"
    /\ args_test
    /\ args_keywords = <<"Text", "Voice">>
    /\ KEYWORDS = <<"Text", "Voice">>
    /\ Flatten(batches) = <<"Text", "Voice">>
    /\ fired = <<>>

\* C20: a run that gets through its control flow returns True whatever
\* failed on the way (batches, all of them even; no report; sends that
\* returned failure), and a --test program then ends with exit status 0;
\* process_trends returns False only from its outer exception handler.
C20_CompletedRunSucceeds ==
    /\ [](/\ pc = "pt_return" => (ret <=> ErrorsSent = {})
          /\ pc = "exit" => exit_status = 0
          /\ pc # "exit" => exit_status = -1)
    /\ [][pc = "pt_done" => (ret' = TRUE /\ pc' = "pt_return")]_vars
    /\ [][(pc = "pt_return" /\ caller = "main") =>
            /\ pc' = "exit"
            /\ exit_status' = 0
            /\ last_ret' = <<ret>>]_vars

\* Every one of the three batches of a run failed, no report was written
\* and nothing was sent, and the run returns True.
C20_Witness ==
    /\ pc = "pt_return"
    /\ ret = TRUE
    /\ Len(batches) = 3
    /\ Cardinality(failed) = 3
    /\ written = <<>>
    /\ sent = <<>>

(* ------------------------------------------------------------------ *)
(* Properties of the parts                                              *)
(* ------------------------------------------------------------------ *)
\* The alert notifications sent so far, in order.
IsAlert(n) == n.kind = "alert"
AlertsSent == SelectSeq(sent, IsAlert)
GroupItems(groups) == [n \in 1..Len(groups) |-> groups[n].items]

\* C4: the alert loop sends one notification per group; group j holds
\* alerts 10*(j-1)+1 .. min(10*j, M) of the list in their order, so no group
\* is empty or has more than 10 alerts, and when the loop has ended
\* ceil(M/10) groups were sent whose concatenation is the whole list.
C4_AlertGroups ==
    LET M == Len(high_rising_trends)
    IN /\ \A j \in 1..Len(AlertsSent) :
             /\ AlertsSent[j].number = j
             /\ AlertsSent[j].total = CeilDiv(M, alert_batch_size)
             /\ AlertsSent[j].items =
                    SubSeq(high_rising_trends, alert_batch_size * (j - 1) + 1,
                           Min(alert_batch_size * j, M))
             /\ Len(AlertsSent[j].items) >= 1
             /\ Len(AlertsSent[j].items) <= alert_batch_size
       /\ pc = "pt_alerts" => ai = alert_batch_size * Len(AlertsSent)
       /\ pc = "pt_done" =>
             /\ Len(AlertsSent) = CeilDiv(M, alert_batch_size)
             /\ Flatten(GroupItems(AlertsSent)) = high_rising_trends

\* 23 alerts went out as groups of 10, 10 and 3.
C4_Witness ==
    /\ pc = "pt_done"
    /\ Len(high_rising_trends) = 23
    /\ Len(AlertsSent) = 3
    /\ Len(AlertsSent[1].items) = 10
    /\ Len(AlertsSent[2].items) = 10
    /\ Len(AlertsSent[3].items) = 3

\* The positions, in increasing order, of the rows above the threshold.
AboveIndexes(rows, threshold) == {n \in 1..Len(rows) : rows[n].value > threshold}
NthAbove(rows, threshold, m) ==
    CHOOSE n \in AboveIndexes(rows, threshold) :
        Cardinality({k \in AboveIndexes(rows, threshold) : k <= n}) = m

\* C5: check_rising_trends returns, in the order of the rows, one
\* (query, value) pair for every row of the rising frame whose value is
\* strictly above the threshold and for no other row; nothing for a value
\* that is None or an empty dict, for a missing or None 'rising', or for an
\* empty frame; and the call leaves its input as it was.
C5_RisingOverThreshold ==
    /\ [](pc = "cr_done" =>
            IF Truthy(cr_data) /\ IsDataFrame(cr_data.rising)
            THEN LET rows == cr_data.rising.rows
                 IN /\ Len(cr_ret) = Cardinality(AboveIndexes(rows, cr_threshold))
                    /\ \A m \in 1..Len(cr_ret) :
                          LET row == rows[NthAbove(rows, cr_threshold, m)]
                          IN cr_ret[m] = <<row.query, row.value>>
            ELSE cr_ret = <<>>)
    /\ [][cr_data' = cr_data /\ cr_threshold' = cr_threshold]_vars

\* Values 100, 501, 500, 502 against the threshold 500 gave the alerts for
\* 501 and 502, in that order.
C5_Witness ==
    /\ pc = "cr_done"
    /\ cr_threshold = 500
    /\ cr_data.rising.rows =
          <<Row("a", 100), Row("c", 501), Row("b", 500), Row("d", 502)>>
    /\ cr_ret = << <<"c", 501>>, <<"d", 502>> >>

\* The rows of the frames of one kind over all keywords of all_results.
RECURSIVE FrameCount(_, _)
FrameCount(res, kind) ==
    IF res = <<>> THEN 0
    ELSE (IF IsDataFrame(Head(res)[2][kind]) THEN Len(Head(res)[2][kind].rows) ELSE 0)
         + FrameCount(Tail(res), kind)

RowsOfType(rows, type) == {n \in 1..Len(rows) : rows[n].type = type}

\* C6: generate_daily_report emits one row per row of every keyword's
\* rising frame (type 'rising') and top frame (type 'top'), each carrying
\* its keyword, query and value; with no row at all it writes no file and
\* returns None, otherwise it writes exactly one file holding those rows.
C6_ReportRows ==
    LET total == FrameCount(all_results, "rising") + FrameCount(all_results, "top")
    IN /\ pc = "pt_alerts" =>
             /\ total = 0
             /\ written = <<>>
             /\ report_file = NoFile
       /\ pc = "pt_except" => total > 0 /\ written = <<>>
       /\ pc = "pt_send_report" =>
             /\ total > 0
             /\ report_file.some
             /\ Len(written) = 1
             /\ Len(written[1].rows) = total
             /\ Cardinality(RowsOfType(written[1].rows, "rising"))
                    = FrameCount(all_results, "rising")
             /\ Cardinality(RowsOfType(written[1].rows, "top"))
                    = FrameCount(all_results, "top")
             /\ \A n \in 1..Len(all_results) : \A kind \in {"rising", "top"} :
                   IsDataFrame(all_results[n][2][kind]) =>
                      \A k \in 1..Len(all_results[n][2][kind].rows) :
                         \E r \in 1..total :
                            written[1].rows[r] =
                               [keyword |-> all_results[n][1],
                                related_keywords |-> all_results[n][2][kind].rows[k].query,
                                value |-> all_results[n][2][kind].rows[k].value,
                                type |-> kind]

\* One keyword with one rising row and one top row gave a file of two rows.
C6_Witness ==
    /\ pc = "pt_send_report"
    /\ Len(all_results) = 1
    /\ Len(all_results[1][2].rising.rows) = 1
    /\ Len(all_results[1][2].top.rows) = 1
    /\ Len(written) = 1
    /\ Len(written[1].rows) = 2
    /\ written[1].rows[1].type = "rising"
    /\ written[1].rows[2].type = "top"

\* C7: the target is the configured time shifted forward by the drawn
\* jitter with the carry from minutes into hours: minute = (minute + j) mod
\* 60 and hour = (hour + (minute + j) div 60) mod 24.
C7_TargetRollover ==
    pc = "rs_check" =>
        /\ schedule_minute = (cfg_minute + random_minutes) % 60
        /\ schedule_hour = (cfg_hour + (cfg_minute + random_minutes) \div 60) % 24

\* C10: a send that returned failure, of the report or of an alert group,
\* neither stops the sends after it nor fails the run: the error handler is
\* not entered, the alert loop steps to the next group, every group has been
\* sent when the loop ends, and process_trends returns True.
FailedSends == {n \in 1..Len(sent) : sent[n].kind \in {"report", "alert"} /\ ~sent[n].ok}

C10_FailedSendDoesNotBlock ==
    FailedSends # {} =>
        /\ pc \in {"pt_alerts", "pt_done", "pt_return"}
        /\ \A n \in 1..Len(sent) : sent[n].kind # "error"
        /\ pc = "pt_alerts" => ai = alert_batch_size * Len(AlertsSent)
        /\ pc \in {"pt_done", "pt_return"} =>
              /\ Len(AlertsSent) = CeilDiv(Len(high_rising_trends), alert_batch_size)
              /\ \A j \in 1..Len(AlertsSent) : AlertsSent[j].number = j
        /\ pc = "pt_return" => ret = TRUE

\* The report send and the send of group 1 of 3 failed; groups 2 and 3 were
\* sent and the run returns True.
C10_Witness ==
    /\ pc = "pt_return"
    /\ ret = TRUE
    /\ Len(sent) = 4
    /\ sent[1].kind = "report" /\ ~sent[1].ok
    /\ sent[2].kind = "alert" /\ sent[2].number = 1 /\ ~sent[2].ok
    /\ sent[3].kind = "alert" /\ sent[3].number = 2 /\ sent[3].ok
    /\ sent[4].kind = "alert" /\ sent[4].number = 3 /\ sent[4].ok

\* C14: when the alerts of a run go out in more than one group, the body of
\* every group's notification, the last group's too, states the group's
\* index and the group count.
C14_EveryBodyStatesIndex ==
    \A j \in 1..Len(AlertsSent) :
        AlertsSent[j].total > 1 => AlertsSent[j].note

\* C14 as amended: the subject of every group's notification carries the
\* group's index and the group count; the body carries them for every group
\* that is not the last one, and for no other.
C14_BodyStatesIndexUnlessLast ==
    \A j \in 1..Len(AlertsSent) :
        /\ AlertsSent[j].number = j
        /\ AlertsSent[j].total = CeilDiv(Len(high_rising_trends), alert_batch_size)
        /\ AlertsSent[j].note <=> j < AlertsSent[j].total

\* 23 alerts: the bodies of groups 1 and 2 of 3 state the index, the body of
\* group 3 does not.
C14_Witness ==
    /\ pc = "pt_done"
    /\ Len(AlertsSent) = 3
    /\ AlertsSent[2].number = 2 /\ AlertsSent[2].total = 3 /\ AlertsSent[2].note
    /\ AlertsSent[3].number = 3 /\ AlertsSent[3].total = 3 /\ ~AlertsSent[3].note

\* The report rows of one of the twelve keywords: its rising row and its
\* top row as fetched.
HasFetchedRowsOf(rows, keyword) ==
    \A kind \in {"rising", "top"} :
        \E r \in 1..Len(rows) :
            rows[r] = [keyword |-> keyword,
                       related_keywords |-> FetchedData(keyword)[kind].rows[1].query,
                       value |-> FetchedData(keyword)[kind].rows[1].value,
                       type |-> kind]

RetriedTwiceThenFetched ==
    /\ pc = "pt_after_batch"
    /\ Len(batches) = 2
    /\ attempt_log = <<"fail", "fail", "ok">>

\* C15: twelve keywords with batch_size 5 and max_retries 3 are processed
\* as three batches of 5, 5 and 2 keywords.  When the fetch of the second
\* batch fails on tries 1 and 2 and succeeds on try 3 and its results are
\* persisted, the batch counts as successful, its keywords are recorded and
\* their rows are in the report of the run; and when no batch failed the
\* report holds the rising and the top row of every one of the twelve
\* keywords, 24 rows in all.
C15_EndToEnd ==
    /\ [](/\ Len(batches) <= 3
          /\ Len(batches) >= 1 => batches[1] = SubSeq(KEYWORDS, 1, 5)
          /\ Len(batches) >= 2 => batches[2] = SubSeq(KEYWORDS, 6, 10)
          /\ Len(batches) >= 3 => batches[3] = SubSeq(KEYWORDS, 11, 12)
          /\ pc \in PastLoopPcs => Len(batches) = 3
          /\ (RetriedTwiceThenFetched /\ item > Len(results)) =>
                /\ success
                /\ tries = 3
                /\ \A k \in 6..10 : KEYWORDS[k] \in DictKeys(all_results)
          /\ (pc = "pt_send_report" /\ failed = {}) =>
                /\ Len(written) = 1
                /\ Len(written[1].rows) = 24
                /\ \A k \in 1..12 : HasFetchedRowsOf(written[1].rows, KEYWORDS[k]))
    /\ []((RetriedTwiceThenFetched /\ success) =>
            [](pc = "pt_send_report" =>
                 \A k \in 6..10 : HasFetchedRowsOf(written[1].rows, KEYWORDS[k])))

\* The second batch was fetched on its third try after two failed tries and
\* counts as successful, with the ten keywords of batches 1 and 2 recorded.
C15_Witness ==
    /\ RetriedTwiceThenFetched
    /\ success
    /\ Len(batches[2]) = 5
    /\ Len(all_results) = 10
    /\ failed = {}

BatchLoopPcs == {"pt_loop", "pkb_fetch", "pkb_items", "pt_after_batch"}

\* C16: the phases of a run are in order.  While the batch loop is going on
\* no report has been written and nothing has been sent; the report is
\* assembled only when every batch of the list has been processed, failed
\* ones included; a report notification is the first notification of the
\* run, before any alert group; the alert groups go out in increasing
\* index; and from the assembly of the report on no step of the run is a
\* batch step again.
C16_PhaseOrder ==
    /\ [](/\ pc \in {"pt_start"} \cup BatchLoopPcs =>
                /\ written = <<>>
                /\ sent = <<>>
                /\ report_file = NoFile
          /\ (pc \in PastLoopPcs \/ written # <<>>) =>
                /\ Len(batches) = CeilDiv(Len(KEYWORDS), batch_size)
                /\ Flatten(batches) = KEYWORDS
                /\ i >= Len(KEYWORDS)
          /\ \A n \in 1..Len(sent) :
                /\ sent[n].kind = "report" => n = 1 /\ written # <<>>
                /\ (sent[n].kind = "alert" /\ written # <<>>) =>
                      n > 1 /\ sent[1].kind = "report"
          /\ \A j \in 1..Len(AlertsSent) : AlertsSent[j].number = j)
    /\ [][(pc \in PastLoopPcs \cup {"pt_except"}) =>
            /\ pc' \in PastLoopPcs \cup {"pt_except", "pt_return"}
            /\ UNCHANGED <<batches, attempt_log, tries, all_results>>]_vars

\* Twelve keywords whose last batch failed on its second keyword: the run
\* sent the report and then alert groups 1 and 2, in that order.
C16_Witness ==
    /\ pc = "pt_done"
    /\ Len(batches) = 3
    /\ failed # {}
    /\ Len(written) = 1
    /\ Len(sent) = 3
    /\ sent[1].kind = "report"
    /\ sent[2].kind = "alert" /\ sent[2].number = 1
    /\ sent[3].kind = "alert" /\ sent[3].number = 2


\* high_rising_trends has only grown by appending.
IsPrefix(s, t) == Len(s) <= Len(t) /\ SubSeq(t, 1, Len(s)) = s

\* C21: the result map and the alert list belong to one run.  Every run
\* begins with both empty (lines 208-211); inside the run the alert list
\* only grows by appending and no key leaves the map, over all batches;
\* what is added is taken from the mapping fetched for the current batch
\* of this run; and the report written and the alerts sent by the run hold
\* the rows of this map and the alerts of this list.
C21_AccumulatorsOwnedByRun ==
    /\ [](/\ \A n \in 1..Len(written) : written[n].rows = ReportData(all_results)
          /\ \A n \in 1..Len(sent) :
                sent[n].kind = "alert" =>
                   \A m \in 1..Len(sent[n].items) :
                      \E h \in 1..Len(high_rising_trends) :
                         high_rising_trends[h] = sent[n].items[m])
    /\ [][(pc = "pt_start" /\ pc' = "pt_loop") =>
            (all_results' = <<>> /\ high_rising_trends' = <<>>)]_vars
    /\ [][(pc \in RunPcs \ {"pt_start", "pt_return"}) =>
            /\ IsPrefix(high_rising_trends, high_rising_trends')
            /\ \A k \in DictKeys(all_results) : k \in DictKeys(all_results')]_vars
    /\ [][((pc \in RunPcs \ {"pt_start", "pt_return"})
            /\ (all_results' # all_results
                  \/ high_rising_trends' # high_rising_trends)) =>
            /\ pc = "pkb_items"
            /\ item <= Len(results)
            /\ all_results' = DictSet(all_results, results[item][1], results[item][2])
            /\ high_rising_trends' = high_rising_trends \o
                  AlertsOf(results[item][1],
                           check_rising_trends(results[item][2], rising_threshold))]_vars

\* The second run of the trigger: both of its batches gave an alert, the
\* list holds exactly these two, and the report and one alert notification
\* were sent.
C21_Witness ==
    /\ pc = "pt_done"
    /\ caller = "sched"
    /\ Len(fired) = 2
    /\ Len(batches) = 2
    /\ failed = {}
    /\ high_rising_trends = <<<<"Image", "q1", 501>>, <<"Video", "q1", 501>>>>
    /\ Len(written) = 1
    /\ Len(sent) = 2
    /\ sent[2].kind = "alert"
    /\ sent[2].items = high_rising_trends

\* C22: a call of process_keywords_batch that returned False left
\* all_results and high_rising_trends as they were when the call was made,
\* whichever step inside the batch failed.
C22_FailedBatchLeavesAccumulators ==
    (pc = "pt_after_batch" /\ ~success) =>
        /\ all_results = before_batch.all_results
        /\ high_rising_trends = before_batch.high_rising_trends

\* No keyword occurs twice in the list.
NoRepeat(s) == \A a, b \in 1..Len(s) : s[a] = s[b] => a = b

\* The alert (keyword, related_keywords, value) is a row above the threshold
\* of the rising frame that all_results holds for its keyword.
AlertRefersToResult(a) ==
    /\ a[1] \in DictKeys(all_results)
    /\ LET data == DictGet(all_results, a[1])
       IN /\ IsDataFrame(data.rising)
          /\ \E n \in 1..Len(data.rising.rows) :
                /\ data.rising.rows[n].query = a[2]
                /\ data.rising.rows[n].value = a[3]
    /\ a[3] > rising_threshold

AlertWasSent == \E n \in 1..Len(sent) : sent[n].kind = "alert"

\* C23: at every point of a run every alert of high_rising_trends refers to
\* a key of all_results and to a row above the threshold of that keyword's
\* rising frame; and when an alert notification has been sent, a report
\* file was written before it.
C23_AlertsBackedByResults ==
    /\ \A h \in 1..Len(high_rising_trends) : AlertRefersToResult(high_rising_trends[h])
    /\ AlertWasSent => (Len(written) = 1 /\ report_file.some)

\* C23 as amended: every alert refers to a key of all_results and has a
\* value above the threshold; when no keyword occurs twice in the list of
\* the run, it is a row of the rising frame all_results holds for its
\* keyword, and an alert notification is only sent after the report file
\* was written.
C23_AlertsBackedUnlessRefetched ==
    /\ \A h \in 1..Len(high_rising_trends) :
          /\ high_rising_trends[h][1] \in DictKeys(all_results)
          /\ high_rising_trends[h][3] > rising_threshold
    /\ NoRepeat(KEYWORDS) =>
          /\ \A h \in 1..Len(high_rising_trends) :
                AlertRefersToResult(high_rising_trends[h])
          /\ AlertWasSent =>
                /\ Len(written) = 1
                /\ report_file.some
                /\ sent[1].kind = "report"

\* A --test run on two different keywords, each with a row above the
\* threshold: the report was written and sent, then the two alerts.
C23_Witness ==
    /\ pc = "pt_done"
    /\ caller = "main"
    /\ NoRepeat(KEYWORDS)
    /\ Len(KEYWORDS) = 2
    /\ Len(high_rising_trends) = 2
    /\ high_rising_trends[1][1] # high_rising_trends[2][1]
    /\ Len(written) = 1
    /\ AlertWasSent

\* A measure of the work a run has left, in two parts ordered
\* lexicographically: the phase of process_trends, and inside the batch
\* loop and the alert loop the steps these loops can still take.
RunStage ==
    CASE pc = "pt_start" -> 9
      [] pc \in {"pt_loop", "pkb_fetch", "pkb_items", "pt_after_batch"} -> 8
      [] pc = "pt_report" -> 7
      [] pc = "pt_send_report" -> 6
      [] pc = "pt_alerts" -> 5
      [] pc = "pt_done" -> 4
      [] pc = "pt_except" -> 3
      [] pc = "pt_return" -> 2
      [] OTHER -> 0

BatchesFrom(start) ==
    IF start < Len(KEYWORDS) THEN CeilDiv(Len(KEYWORDS) - start, batch_size) ELSE 0

BatchWork == max_retries + batch_size + 3

RunWork ==
    CASE pc = "pt_loop" -> BatchesFrom(i) * BatchWork
      [] pc = "pkb_fetch" ->
            (BatchesFrom(i) - 1) * BatchWork + (max_retries - tries) + batch_size + 2
      [] pc = "pkb_items" ->
            (BatchesFrom(i) - 1) * BatchWork + (Len(results) - item + 1) + 2
      [] pc = "pt_after_batch" -> (BatchesFrom(i) - 1) * BatchWork + 1
      [] pc = "pt_alerts" ->
            IF ai < Len(high_rising_trends) THEN Len(high_rising_trends) - ai ELSE 0
      [] OTHER -> 0

\* C24: every run ends.  While process_trends is running some step of it
\* can always be taken (no step waits for anything), and every step takes
\* the run to a later phase or leaves less work in its loop, the work left
\* never being negative: so the function returns.  Up to then it has made
\* at most ceil(N / batch_size) * max_retries tries of the fetch, and at
\* most 1 + ceil(M / 10) + 1 sends (the report, the groups of the M
\* alerts, one error alert), whatever failed.
C24_RunTerminates ==
    /\ [](fetch_attempts <= CeilDiv(Len(KEYWORDS), batch_size) * max_retries)
    /\ [](Len(sent) <= 1 + CeilDiv(Len(high_rising_trends), alert_batch_size) + 1)
    /\ [](pc \in RunPcs => (ENABLED RunStep /\ RunWork >= 0))
    /\ [][(pc \in RunPcs) =>
            \/ RunStage' < RunStage
            \/ (RunStage' = RunStage /\ RunWork' < RunWork)]_vars

\* A run of three batches returns after every fetch was tried max_retries
\* times, the last try of the last batch succeeding, and two sends.
C24_Witness ==
    /\ pc = "pt_return"
    /\ Len(batches) = 3
    /\ max_retries = MaxRetries
    /\ fetch_attempts = 3 * max_retries
    /\ Len(sent) = 2

\* The target time of day, in minutes after midnight.
TargetOfDay == schedule_hour * MinutesPerHour + schedule_minute

\* C25: the jitter is drawn once, at the start of the trigger, the target
\* time of day never changes afterwards, and every firing after the first
\* comes exactly one day after the firing before it.
C25_FiringsOnSuccessiveDays ==
    \A n \in 2..Len(fired) : fired[n] = fired[n - 1] + DayMinutes

\* C25 as amended: the jitter is drawn only by run_scheduler at its start
\* (not at all when random_delay_minutes is 0), after which the target time
\* of day never changes; every firing happens at that time of day; after a
\* run the job is due at the first occurrence of that time of day after the
\* return, which is one day after the firing whenever the run returned
\* before then, and a later day when the run lasted longer.
C25_JitterDrawnAtStartOnly ==
    /\ [](/\ \A n \in 1..Len(fired) : TimeOfDay(fired[n]) = TargetOfDay
          /\ \A n \in 2..Len(fired) :
                /\ fired[n] > fired[n - 1]
                /\ (fired[n] - fired[n - 1]) % DayMinutes = 0
          /\ random_minutes \in 0..cfg_random_delay)
    /\ [][(random_minutes' # random_minutes \/ schedule_hour' # schedule_hour
             \/ schedule_minute' # schedule_minute) => pc = "rs_start"]_vars
    /\ [][pc' = "rs_start" => pc = "main"]_vars
    /\ [][(pc = "pt_return" /\ caller = "sched") =>
            /\ next_run' > now
            /\ next_run' <= now + DayMinutes
            /\ TimeOfDay(next_run') = TargetOfDay
            /\ now < fired[Len(fired)] + DayMinutes =>
                  next_run' = fired[Len(fired)] + DayMinutes]_vars
    /\ [][(pc = "rs_poll" /\ pc' = "pt_start") =>
            (now = next_run /\ fired' = Append(fired, next_run))]_vars

\* The first run of the trigger lasted more than a day; the second run has
\* started at the same time of day two days after the first, with the
\* jitter of one minute that was drawn at the start.
C25_Witness ==
    /\ pc = "pt_start"
    /\ caller = "sched"
    /\ random_minutes = 1
    /\ Len(fired) = 2
    /\ fired[2] = fired[1] + 2 * DayMinutes
    /\ TimeOfDay(fired[2]) = TargetOfDay

\* C26: for every configured hour in 0..23 and minute in 0..59, every
\* random delay and every draw, the target computed by run_scheduler is a
\* valid time of day: 0 <= hour <= 23 and 0 <= minute <= 59.
C26_TargetIsValidTime ==
    pc = "rs_check" =>
        /\ schedule_hour \in 0..(HoursPerDay - 1)
        /\ schedule_minute \in 0..(MinutesPerHour - 1)
        /\ random_minutes \in 0..cfg_random_delay

\* 23:59 with a draw of more than an hour: both sums pass their modulus
\* and the target is a time early in the day.
C26_Witness ==
    /\ pc = "rs_check"
    /\ cfg_hour = 23
    /\ cfg_minute = 59
    /\ random_minutes > MinutesPerHour
    /\ schedule_hour < cfg_hour
    /\ schedule_minute < cfg_minute

(* ------------------------------------------------------------------ *)
(* The WeChatManager singleton (wechat_utils.py)                        *)
(* ------------------------------------------------------------------ *)
\* Positions inside login's with block: the thread holds _login_lock.
LoginPcs == {"login_locked", "login_cache", "login_try"}
InLogin(t) == wx_thread[t].pc \in LoginPcs
\* The thread has returned from a call of this name.
ReturnedFrom(t, call) == wx_thread[t].pc = "idle" /\ wx_thread[t].call = call
WeChatConfigured == wx_method \in {"wechat", "both"}

\* C27: every WeChatManager() construction, concurrent ones included,
\* returns the one instance, and the body of __init__ after the
\* _initialized check runs exactly once in the process.
C27_SingletonInitialisedOnce ==
    /\ wx_made <= 1
    /\ wx_init_runs <= 1
    /\ wx_phase = "run" => (wx_made = 1 /\ wx_init_runs = 1 /\ wx_initialized)
    /\ \A t \in Threads :
         ReturnedFrom(t, "construct") =>
            /\ wx_thread[t].ret = <<wx_instance>>
            /\ wx_instance # NoObject

\* Two threads construct at the same time after the import: one has passed
\* the _initialized check and returned, the other is about to check.
C27_Witness ==
    /\ wx_phase = "run"
    /\ wx_init_runs = 1
    /\ \E t1, t2 \in Threads :
         /\ t1 # t2
         /\ ReturnedFrom(t1, "construct")
         /\ wx_thread[t1].how = "initialized"
         /\ wx_thread[t2].pc = "init"

\* Cleanings (and pauses) after k failed attempts of a login with
\* max_retries m: one per failed attempt except the m-th.
CleansAfter(k, m) == IF k < m THEN k ELSE IF m > 0 THEN m - 1 ELSE 0

\* The value login hands back in a step that leaves the with block.
LoginResult(rec) == IF rec.pc = "send" THEN TRUE ELSE rec.ret[1]

\* What login does apart from the flag it leaves on a failure: no more than
\* max_retries attempts, a cleaning and a pause after each failed attempt but
\* the last, True with _logged_in set at the first attempt that succeeds.
LoginAttemptsBounded ==
    /\ [](\A t \in Threads :
            InLogin(t) =>
               /\ wx_thread[t].attempts <= wx_thread[t].max_retries
               /\ wx_thread[t].cleans = CleansAfter(wx_thread[t].attempts,
                                                    wx_thread[t].max_retries)
               /\ wx_thread[t].pauses = wx_thread[t].cleans)
    /\ [][\A t \in Threads :
            (InLogin(t) /\ ~InLogin(t)') =>
               /\ wx_thread'[t].how = "attempt" =>
                     /\ wx_thread[t].attempts < wx_thread[t].max_retries
                     /\ LoginResult(wx_thread'[t])
                     /\ wx_logged_in'
               /\ wx_thread'[t].how = "exhausted" =>
                     /\ wx_thread[t].attempts = wx_thread[t].max_retries
                     /\ ~LoginResult(wx_thread'[t])
               /\ LoginResult(wx_thread'[t]) =>
                     wx_thread'[t].how \in {"valid", "loaded", "attempt"}]_vars

\* C28: login makes at most max_retries auto_login attempts, stops at the
\* first that succeeds with _logged_in true and the value True, cleans the
\* cache and pauses between failed attempts but not after the last, and
\* whenever it returns False _logged_in is false.
C28_LoginOutcome ==
    /\ LoginAttemptsBounded
    /\ [][\A t \in Threads :
            (InLogin(t) /\ ~InLogin(t)' /\ ~LoginResult(wx_thread'[t])) =>
               ~wx_logged_in']_vars

\* Steps login still has to take inside the with block: the status check,
\* the cache step, then one turn of the loop per attempt left.
LoginStage(rec) ==
    CASE rec.pc = "login_locked" -> 2
      [] rec.pc = "login_cache" -> 1
      [] OTHER -> 0
LoginWork(rec) == rec.max_retries - rec.attempts

\* C29: _login_lock serializes login: at most one thread is inside the with
\* block; no thread waits for the lock while it holds it; a thread that
\* waits is never stuck, because the lock is free and it can take it or the
\* holder can take a step; and the holder leaves the with block, releasing
\* the lock, after a bounded number of its own steps.
C29_LoginSerialized ==
    /\ [](\A t \in Threads : InLogin(t) <=> wx_login_lock = t)
    /\ [](\A t1, t2 \in Threads : (InLogin(t1) /\ InLogin(t2)) => t1 = t2)
    /\ [](\A t \in Threads :
            wx_thread[t].pc = "login" =>
               /\ wx_login_lock # t
               /\ IF wx_login_lock = NoLock
                  THEN ENABLED wx_login_acquire(t)
                  ELSE \E h \in Threads : InLogin(h) /\ ENABLED wx_step(h))
    /\ [][\A t \in Threads :
            (InLogin(t) /\ wx_thread'[t] # wx_thread[t]) =>
               \/ ~InLogin(t)' /\ wx_login_lock' = NoLock
               \/ InLogin(t)' /\ LoginStage(wx_thread'[t]) < LoginStage(wx_thread[t])
               \/ /\ InLogin(t)'
                  /\ LoginStage(wx_thread'[t]) = LoginStage(wx_thread[t])
                  /\ LoginWork(wx_thread'[t]) < LoginWork(wx_thread[t])
                  /\ LoginWork(wx_thread'[t]) >= 0]_vars

\* One thread is inside login making attempts while the other waits for
\* the lock.
C29_Witness ==
    \E t1, t2 \in Threads :
       /\ wx_thread[t1].pc = "login_try"
       /\ wx_thread[t1].attempts > 0
       /\ wx_thread[t2].pc = "login"
       /\ wx_thread[t2].call = "send_message"

\* C30: when the method is neither 'wechat' nor 'both', ensure_login and
\* send_message return False without entering login, calling itchat or
\* assigning _logged_in; and send_message returns False, it does not raise,
\* whenever the lookup or the send fails.
C30_DisabledAndFailuresReturnFalse ==
    /\ [](\A t \in Threads :
            (~WeChatConfigured /\ wx_thread[t].call \in {"ensure_login", "send_message"}) =>
               /\ wx_thread[t].pc \in {"ensure", "idle"}
               /\ wx_thread[t].logins = 0
               /\ ~wx_thread[t].svc
               /\ ~wx_thread[t].wrote
               /\ wx_thread[t].pc = "idle" => wx_thread[t].ret = <<FALSE>>)
    /\ [][\A t \in Threads :
            (/\ ~WeChatConfigured
             /\ wx_thread[t].call \in {"ensure_login", "send_message"}
             /\ wx_thread'[t] # wx_thread[t]
             /\ wx_thread[t].pc # "idle") =>
               UNCHANGED <<wx_logged_in, wx_login_lock, wx_pkl, wx_receiving>>]_vars
    /\ [](\A t \in Threads :
            (ReturnedFrom(t, "send_message") /\ wx_thread[t].how # "True") =>
               wx_thread[t].ret = <<FALSE>>)
    /\ [][\A t \in Threads :
            (wx_thread[t].pc = "send" /\ wx_thread'[t] # wx_thread[t]) =>
               /\ ReturnedFrom(t, "send_message")'
               /\ wx_thread'[t].ret \in {<<TRUE>>, <<FALSE>>}]_vars

\* With method 'email' a direct login has succeeded, and a send_message
\* made afterwards has returned False leaving _logged_in true.
C30_Witness ==
    /\ wx_method = "email"
    /\ wx_logged_in
    /\ \E t \in Threads :
         /\ ReturnedFrom(t, "send_message")
         /\ wx_thread[t].how = "not_needed"
         /\ wx_thread[t].ret = <<FALSE>>
         /\ wx_thread[t].flag
====
